---- MODULE Spec2Model ----
(***************************************************************************)
(* Flight departure monitor: snapshot store, change detector, change log.  *)
(* The model follows src/src/monitor.py, src/src/database.py and           *)
(* src/src/request.py.  One SQLite connection is modelled: the rows the    *)
(* connection sees (committed or not) and the rows that are committed.     *)
(***************************************************************************)
EXTENDS Integers, Sequences, FiniteSets, TLC

VARIABLES
    flight_snapshots,     \* rows of flight_snapshots as the connection sees them
    flight_changes,       \* rows of flight_changes as the connection sees them
    committed_snapshots,  \* rows of flight_snapshots that are committed
    committed_changes,    \* rows of flight_changes that are committed
    now,                  \* the clock read by datetime.now(timezone.utc)
    last,                 \* the last operation: its inputs, steps and result
    monitor               \* run_monitor: its arguments, position and connection

vars == <<flight_snapshots, flight_changes, committed_snapshots,
          committed_changes, now, last, monitor>>

-----------------------------------------------------------------------------
(* Python / SQLite values.  A text is a sequence of one-character strings.  *)
(* A datetime is an instant, in microseconds after the reference instant    *)
(* 2025-04-19T12:30:56.250Z (whose Julian day number is a double exactly).  *)
(* An ISO text is the ISO-8601 rendering of an instant with a separator.    *)

NULL == [t |-> "null"]

Text(s) == [t |-> "text", s |-> s]

DateTime(us) == [t |-> "datetime", us |-> us]

IsoText(us, sep) == [t |-> "iso", us |-> us, sep |-> sep]

List(items) == [t |-> "list", items |-> items]

Bool(b) == [t |-> "bool", b |-> b]

Integer(n) == [t |-> "integer", n |-> n]

\* Variant: "is None" in place of the truth value.
Truthy_IsNotNone(v) == v.t # "null"

\* Python truth value of None, str and datetime.
Truthy(v) ==
    CASE v.t = "null" -> FALSE
      [] v.t = "text" -> v.s # <<>>
      [] v.t = "bool" -> v.b
      [] OTHER -> TRUE

IsSpace(c) == c = " "

RECURSIVE LStrip(_)
LStrip(s) ==
    IF s = <<>> THEN <<>>
    ELSE IF IsSpace(Head(s)) THEN LStrip(Tail(s)) ELSE s

RECURSIVE RStrip(_)
RStrip(s) ==
    IF s = <<>> THEN <<>>
    ELSE IF IsSpace(s[Len(s)]) THEN RStrip(SubSeq(s, 1, Len(s) - 1)) ELSE s

\* str.strip()
Strip(v) == Text(RStrip(LStrip(v.s)))

\* str(x) as save_change applies it to previous_value and new_value.
Str(v) ==
    CASE v.t = "null" -> Text(<<"N", "o", "n", "e">>)
      [] v.t = "datetime" -> IsoText(v.us, " ")
      [] OTHER -> v

\* sqlite3's default adapter for a bound parameter.
Adapt(v) ==
    IF v.t = "datetime" THEN IsoText(v.us, " ") ELSE v

\* format_timestamp
format_timestamp(dt) ==
    CASE dt.t = "null" -> NULL
      [] dt.t = "datetime" -> IsoText(dt.us, "T")
      [] OTHER -> dt

-----------------------------------------------------------------------------
(* JULIANDAY.  SQLite parses an ISO text into whole milliseconds and        *)
(* returns milliseconds / 86400000.0 as a double.  Near the reference       *)
(* instant a double has a quantum of 2^-31 day, so the result is the        *)
(* nearest multiple of 2^-31 day; it is kept here in that unit, relative    *)
(* to the reference instant.                                                *)

UsPerMs == 1000

JdUnitNum == 2097152    \* 2^21: one millisecond is 2^21 / 84375 quanta

JdUnitDen == 84375

\* 0.00001 day is 21474.83648 quanta: a difference exceeds it from 21475 on.
JdTolFloor == 21474

julian_ms(us) == (us + (UsPerMs \div 2)) \div UsPerMs

julian_units(ms) ==
    LET n == ms * JdUnitNum
        q == n \div JdUnitDen
        r == n % JdUnitDen
    IN  IF 2 * r > JdUnitDen THEN q + 1 ELSE q

\* JULIANDAY(x): NULL for NULL and for a text that is no date.
JULIANDAY(v) ==
    IF v.t = "iso" THEN [t |-> "real", units |-> julian_units(julian_ms(v.us))]
    ELSE NULL

Abs(x) == IF x < 0 THEN 0 - x ELSE x

\* Variant: the difference without ABS.
timestamp_changed_NoAbs(current, previous) ==
    LET c == JULIANDAY(Adapt(current))
        p == JULIANDAY(Adapt(previous))
    IN  IF c = NULL \/ p = NULL THEN FALSE
        ELSE c.units - p.units > JdTolFloor

\* SELECT ABS(JULIANDAY(:current) - JULIANDAY(:previous)) > 0.00001,
\* read as a Python truth value (NULL is falsy).
timestamp_changed(current, previous) ==
    LET c == JULIANDAY(Adapt(current))
        p == JULIANDAY(Adapt(previous))
    IN  IF c = NULL \/ p = NULL THEN FALSE
        ELSE Abs(c.units - p.units) > JdTolFloor

-----------------------------------------------------------------------------
(* Store queries and writes.                                                *)

\* Variant: ORDER BY snapshot_id ASC.
latest_snapshot_Oldest(snaps, unique_flight_id) ==
    LET own == {i \in 1..Len(snaps) : snaps[i].unique_flight_id = unique_flight_id}
    IN  IF own = {} THEN NULL
        ELSE snaps[CHOOSE i \in own :
                     \A j \in own : snaps[j].snapshot_id >= snaps[i].snapshot_id]

\* Variant: without the WHERE clause.
latest_snapshot_AnyFlight(snaps, unique_flight_id) ==
    IF snaps = <<>> THEN NULL ELSE snaps[Len(snaps)]

\* SELECT * FROM flight_snapshots WHERE unique_flight_id = ?
\* ORDER BY snapshot_id DESC LIMIT 1
latest_snapshot(snaps, unique_flight_id) ==
    LET own == {i \in 1..Len(snaps) : snaps[i].unique_flight_id = unique_flight_id}
    IN  IF own = {} THEN NULL
        ELSE snaps[CHOOSE i \in own :
                     \A j \in own : snaps[j].snapshot_id <= snaps[i].snapshot_id]

\* SELECT change_id FROM flight_changes WHERE unique_flight_id = ?
\* AND attribute_changed = ? AND new_value = ?   -- a row was found
\* In SQL "new_value = NULL" is never true.
already_recorded(chgs, unique_flight_id, attribute, value) ==
    LET param == Adapt(value)
    IN  /\ param # NULL
        /\ \E i \in 1..Len(chgs) :
              /\ chgs[i].unique_flight_id = unique_flight_id
              /\ chgs[i].attribute_changed = attribute
              /\ chgs[i].new_value # NULL
              /\ chgs[i].new_value = param

\* Variant: the cycle that detects the change given as the prior cycle.
change_event_OwnCycle(unique_flight_id, cycle_timestamp, previous, attribute, prev_value, new_value) ==
    [unique_flight_id |-> unique_flight_id,
     change_detected_cycle_timestamp |-> cycle_timestamp,
     previous_cycle_timestamp |-> cycle_timestamp,
     attribute_changed |-> attribute,
     previous_value |-> prev_value,
     new_value |-> new_value]

\* The dict detect_changes appends to its result.
change_event(unique_flight_id, cycle_timestamp, previous, attribute, prev_value, new_value) ==
    [unique_flight_id |-> unique_flight_id,
     change_detected_cycle_timestamp |-> cycle_timestamp,
     previous_cycle_timestamp |-> previous.cycle_timestamp,
     attribute_changed |-> attribute,
     previous_value |-> prev_value,
     new_value |-> new_value]

\* Variant: the prior value always read from scheduled_departure_utc.
detect_timestamp_PrevScheduled(chgs, previous, current_snapshot, cycle_timestamp, attribute) ==
    LET prev == previous.scheduled_departure_utc
        curr == current_snapshot[attribute]
        fid  == current_snapshot.unique_flight_id
    IN  IF /\ Truthy(prev) /\ Truthy(curr)
           /\ timestamp_changed(curr, prev)
           /\ ~already_recorded(chgs, fid, attribute, curr)
        THEN <<change_event(fid, cycle_timestamp, previous, attribute, prev, curr)>>
        ELSE <<>>

\* The scheduled / estimated block of detect_changes.
detect_timestamp(chgs, previous, current_snapshot, cycle_timestamp, attribute) ==
    LET prev == previous[attribute]
        curr == current_snapshot[attribute]
        fid  == current_snapshot.unique_flight_id
    IN  IF /\ Truthy(prev) /\ Truthy(curr)
           /\ timestamp_changed(curr, prev)
           /\ ~already_recorded(chgs, fid, attribute, curr)
        THEN <<change_event(fid, cycle_timestamp, previous, attribute, prev, curr)>>
        ELSE <<>>

\* Variant: without strip().
gate_norm_NoStrip(gate) ==
    IF Truthy(gate) THEN gate ELSE NULL

\* gate if gate and gate.strip() else None
gate_norm(gate) ==
    IF Truthy(gate) /\ Truthy(Strip(gate)) THEN gate ELSE NULL

\* The gate block of detect_changes.
detect_gate(chgs, previous, current_snapshot, cycle_timestamp) ==
    LET gate_prev == previous.departure_gate
        gate_curr == current_snapshot.departure_gate
        fid       == current_snapshot.unique_flight_id
    IN  IF /\ gate_norm(gate_prev) # gate_norm(gate_curr)
           /\ ~already_recorded(chgs, fid, "departure_gate", gate_curr)
        THEN <<change_event(fid, cycle_timestamp, previous, "departure_gate",
                            gate_prev, gate_curr)>>
        ELSE <<>>

\* Variant: the prior snapshot is read after the snapshot of the new record
\* has been written.
detect_changes_AfterSnapshot(snaps, chgs, current_snapshot, cycle_timestamp) ==
    LET unique_flight_id == current_snapshot.unique_flight_id
    IN  IF ~Truthy(unique_flight_id) THEN <<>>
        ELSE LET own == [snapshot_id |-> Len(snaps) + 1,
                         unique_flight_id |-> unique_flight_id,
                         cycle_timestamp |-> cycle_timestamp,
                         scheduled_departure_utc |->
                             format_timestamp(current_snapshot.scheduled_departure_utc),
                         estimated_departure_utc |->
                             format_timestamp(current_snapshot.estimated_departure_utc),
                         departure_gate |-> current_snapshot.departure_gate]
                 previous == latest_snapshot(Append(snaps, own), unique_flight_id)
             IN  detect_timestamp(chgs, previous, current_snapshot,
                                  cycle_timestamp, "scheduled_departure_utc")
                 \o detect_timestamp(chgs, previous, current_snapshot,
                                     cycle_timestamp, "estimated_departure_utc")
                 \o detect_gate(chgs, previous, current_snapshot, cycle_timestamp)

\* detect_changes: the prior snapshot of the flight is read, and a flight
\* without one has no changes.
detect_changes(snaps, chgs, current_snapshot, cycle_timestamp) ==
    LET unique_flight_id == current_snapshot.unique_flight_id
    IN  IF ~Truthy(unique_flight_id) THEN <<>>
        ELSE LET previous == latest_snapshot(snaps, unique_flight_id)
             IN  IF previous = NULL THEN <<>>
                 ELSE detect_timestamp(chgs, previous, current_snapshot,
                                       cycle_timestamp, "scheduled_departure_utc")
                      \o detect_timestamp(chgs, previous, current_snapshot,
                                          cycle_timestamp, "estimated_departure_utc")
                      \o detect_gate(chgs, previous, current_snapshot, cycle_timestamp)

\* INSERT INTO flight_changes: change_id is the AUTOINCREMENT key.  The
\* statement is taken to succeed.
save_change(chgs, change) ==
    Append(chgs,
           [change_id |-> Len(chgs) + 1,
            unique_flight_id |-> change.unique_flight_id,
            change_detected_cycle_timestamp |-> change.change_detected_cycle_timestamp,
            previous_cycle_timestamp |-> change.previous_cycle_timestamp,
            attribute_changed |-> change.attribute_changed,
            previous_value |-> Str(change.previous_value),
            new_value |-> Str(change.new_value)])

RECURSIVE save_changes(_, _)
save_changes(chgs, changes) ==
    IF changes = <<>> THEN chgs
    ELSE save_changes(save_change(chgs, Head(changes)), Tail(changes))

\* Variant: INSERT OR REPLACE keyed by the flight identity.
save_snapshot_Replace(snaps, snapshot, cycle_timestamp) ==
    LET own == {i \in 1..Len(snaps) : snaps[i].unique_flight_id = snapshot.unique_flight_id}
        row == [snapshot_id |-> Len(snaps) + 1,
                unique_flight_id |-> snapshot.unique_flight_id,
                cycle_timestamp |-> cycle_timestamp,
                scheduled_departure_utc |-> format_timestamp(snapshot.scheduled_departure_utc),
                estimated_departure_utc |-> format_timestamp(snapshot.estimated_departure_utc),
                departure_gate |-> snapshot.departure_gate]
    IN  IF own = {} THEN Append(snaps, row)
        ELSE [snaps EXCEPT ![CHOOSE i \in own : \A j \in own : j <= i] = row]

\* INSERT INTO flight_snapshots: snapshot_id is the AUTOINCREMENT key.  The
\* statement is taken to succeed.
save_snapshot(snaps, snapshot, cycle_timestamp) ==
    Append(snaps,
           [snapshot_id |-> Len(snaps) + 1,
            unique_flight_id |-> snapshot.unique_flight_id,
            cycle_timestamp |-> cycle_timestamp,
            scheduled_departure_utc |-> format_timestamp(snapshot.scheduled_departure_utc),
            estimated_departure_utc |-> format_timestamp(snapshot.estimated_departure_utc),
            departure_gate |-> snapshot.departure_gate])

\* The loop of process_flight_data over flights[i..], carrying the store,
\* the running total and the record of each step.
RECURSIVE process_loop(_, _, _)
process_loop(acc, flights, cycle_timestamp) ==
    IF flights = <<>> THEN acc
    ELSE LET flight == Head(flights)
         IN  IF ~Truthy(flight.unique_flight_id)
             THEN process_loop(acc, Tail(flights), cycle_timestamp)
             ELSE LET changes == detect_changes(acc.snaps, acc.chgs, flight, cycle_timestamp)
                      step == [flight |-> flight,
                               snaps |-> acc.snaps,
                               log |-> acc.chgs,
                               previous |-> latest_snapshot(acc.snaps, flight.unique_flight_id),
                               changes |-> changes]
                  IN  process_loop(
                          [snaps |-> save_snapshot(acc.snaps, flight, cycle_timestamp),
                           chgs |-> save_changes(acc.chgs, changes),
                           total_changes |-> acc.total_changes + Len(changes),
                           steps |-> Append(acc.steps, step)],
                          Tail(flights), cycle_timestamp)

process_flight_data(snaps, chgs, flights, cycle_timestamp) ==
    process_loop([snaps |-> snaps, chgs |-> chgs, total_changes |-> 0, steps |-> <<>>],
                 flights, cycle_timestamp)

\* Variant: only the change records that were inserted are counted.
count_changes_Written(changes, written) == Len(written)

\* "for change in changes: save_change(...); total_changes += 1": the
\* increment follows every call of save_change, whatever became of its INSERT.
count_changes(changes, written) == Len(changes)

\* The loop of process_flight_data over flights[i..] when INSERT statements
\* can raise sqlite3.Error.  errors holds the statements that raise: <<i, a>>
\* is the INSERT of the change record of attribute a of flights[i] and
\* <<i, "snapshot">> the INSERT of its snapshot.  save_change and
\* save_snapshot log the error and return.
RECURSIVE process_loop_err(_, _, _, _, _)
process_loop_err(acc, flights, i, cycle_timestamp, errors) ==
    IF i > Len(flights) THEN acc
    ELSE LET flight == flights[i]
         IN  IF ~Truthy(flight.unique_flight_id)
             THEN process_loop_err(acc, flights, i + 1, cycle_timestamp, errors)
             ELSE LET changes == detect_changes(acc.snaps, acc.chgs, flight, cycle_timestamp)
                      written == SelectSeq(changes,
                                     LAMBDA c : <<i, c.attribute_changed>> \notin errors)
                      step == [flight |-> flight,
                               snaps |-> acc.snaps,
                               log |-> acc.chgs,
                               previous |-> latest_snapshot(acc.snaps, flight.unique_flight_id),
                               changes |-> changes,
                               index |-> i,
                               written |-> written]
                  IN  process_loop_err(
                          [snaps |-> IF <<i, "snapshot">> \in errors THEN acc.snaps
                                     ELSE save_snapshot(acc.snaps, flight, cycle_timestamp),
                           chgs |-> save_changes(acc.chgs, written),
                           total_changes |-> acc.total_changes + count_changes(changes, written),
                           steps |-> Append(acc.steps, step)],
                          flights, i + 1, cycle_timestamp, errors)

process_flight_data_err(snaps, chgs, flights, cycle_timestamp, errors) ==
    process_loop_err([snaps |-> snaps, chgs |-> chgs, total_changes |-> 0, steps |-> <<>>],
                     flights, 1, cycle_timestamp, errors)

-----------------------------------------------------------------------------
(* The fetcher.  A response of the remote API is its status, whether the    *)
(* body validates, the departures of the body, and whether the request      *)
(* raised.                                                                  *)

HTTP_OK == 200

\* A datetime of the API with its calendar day (0 is 2025-04-19) and the
\* time of that day.
DateTimeOn(day, us) == [t |-> "datetime", day |-> day, us |-> us]

\* strftime('%Y%m%d')
strftime_Ymd(dt) ==
    Text(<<"2", "0", "2", "5", "0", "4">>
         \o (IF dt.day = 0 THEN <<"1", "9">> ELSE <<"2", "0">>))

\* strftime('%H%M') for the times of day of the inputs
strftime_HM(dt) ==
    Text(IF dt.us = 0 THEN <<"1", "2", "3", "0">> ELSE <<"1", "2", "4", "5">>)

\* Python "x or default" on an optional string
or_default(v, default) == IF Truthy(v) THEN v ELSE Text(default)

\* Variant: the time of day is part of the identity.
make_unique_flight_id_WithTime(airline_iata, number, scheduled_utc, dest_iata) ==
    Text(or_default(airline_iata, <<"U", "N", "K">>).s \o <<"-">>
         \o or_default(number, <<"0", "0", "0">>).s \o <<"-">>
         \o (IF Truthy(scheduled_utc)
             THEN strftime_Ymd(scheduled_utc).s \o strftime_HM(scheduled_utc).s
             ELSE <<"N", "O", "D", "A", "T", "E">>) \o <<"-">>
         \o or_default(dest_iata, <<"U", "N", "K">>).s)

\* The f-string of save_data that builds unique_flight_id.
make_unique_flight_id(airline_iata, number, scheduled_utc, dest_iata) ==
    Text(or_default(airline_iata, <<"U", "N", "K">>).s \o <<"-">>
         \o or_default(number, <<"0", "0", "0">>).s \o <<"-">>
         \o (IF Truthy(scheduled_utc) THEN strftime_Ymd(scheduled_utc).s
             ELSE <<"N", "O", "D", "A", "T", "E">>) \o <<"-">>
         \o or_default(dest_iata, <<"U", "N", "K">>).s)

\* The record save_data builds for one departure.
build_record(flight) ==
    LET movement == flight.movement
        airline == flight.airline
        dest_iata == IF movement # NULL /\ movement.airport # NULL
                     THEN movement.airport.iata ELSE NULL
        scheduled_utc == IF movement # NULL /\ movement.scheduledTime # NULL
                         THEN movement.scheduledTime.utc ELSE NULL
        estimated_utc == IF movement # NULL /\ movement.revisedTime # NULL
                         THEN movement.revisedTime.utc ELSE scheduled_utc
        gate == IF movement # NULL THEN movement.gate ELSE NULL
        airline_iata == IF airline # NULL THEN airline.iata ELSE NULL
    IN  [flight_number |-> flight.number,
         airline_iata |-> airline_iata,
         scheduled_departure_utc |-> scheduled_utc,
         estimated_departure_utc |-> estimated_utc,
         departure_gate |-> gate,
         destination_iata |-> dest_iata,
         is_operator |-> Bool(flight.codeshareStatus =
                            Text(<<"I", "s", "O", "p", "e", "r", "a", "t", "o", "r">>)),
         unique_flight_id |-> make_unique_flight_id(airline_iata, flight.number,
                                                    scheduled_utc, dest_iata)]

\* The records of save_data, in the order of the departures.
build_records(departures) == [i \in 1..Len(departures) |-> build_record(departures[i])]

\* GetData.save_data: builds the records, writes them to a CSV file and
\* returns nothing.
save_data(departures) == NULL

\* Variant: the departures of a body that validates are returned, whatever
\* the status.
make_request_AnyStatus(resp) ==
    IF resp.raises THEN NULL
    ELSE IF resp.valid THEN List(resp.departures) ELSE NULL

\* GetData.make_request: every path ends without returning a value.
make_request(resp) ==
    IF resp.raises THEN NULL
    ELSE IF resp.status = HTTP_OK
         THEN IF resp.valid
              THEN LET saved == save_data(resp.departures) IN NULL
              ELSE NULL
         ELSE NULL

\* fetch_flight_data: "if not flight_data: return []".
fetch_flight_data(resp) ==
    LET flight_data == make_request(resp)
    IN  IF flight_data.t = "null" THEN <<>>
        ELSE IF flight_data.items = <<>> THEN <<>> ELSE flight_data.items

-----------------------------------------------------------------------------
(* Bounds and input domains.                                                *)

MaxClock == 2        \* operations that read the clock

MaxRows == 4         \* snapshot rows, mixed inputs

MaxRowsGate == 4     \* snapshot rows, gate histories

MaxRowsPair == 2     \* snapshot rows, pairs of values

MaxRowsErr == 2      \* snapshot rows, calls with failing statements

MaxTable == 2        \* rows of a table given to a query

MaxCount == 1        \* change records of one attribute for one airline

F1 == Text(<<"F", "1">>)

F2 == Text(<<"F", "2">>)

Flight(id, sched, est, gate) ==
    [unique_flight_id |-> id,
     scheduled_departure_utc |-> sched,
     estimated_departure_utc |-> est,
     departure_gate |-> gate]

GateValues ==
    {NULL, Text(<<>>), Text(<<" ">>), Text(<<"A">>), Text(<<"B">>)}

PairGateValues == GateValues \cup {Text(<<" ", " ">>), Text(<<"A", " ">>)}

\* Instants around the tolerance of 0.864 s, in microseconds, and None.
TimeValues ==
    {NULL, DateTime(0), DateTime(3000), DateTime(863000), DateTime(863600),
     DateTime(864000), DateTime(867000), DateTime(867400), DateTime(870000)}

\* Histories of the gate of one flight.
GateFlights == {Flight(F1, DateTime(0), DateTime(0), g) : g \in GateValues}

\* Inputs that vary one tracked attribute of one flight.
PairFlights ==
    {Flight(F1, s, DateTime(0), NULL) : s \in TimeValues}
    \cup {Flight(F1, DateTime(0), e, NULL) : e \in TimeValues}
    \cup {Flight(F1, DateTime(0), DateTime(0), g) : g \in PairGateValues}

\* Two flights whose estimate changes, and records without identity.
MixedFlights ==
    {Flight(id, DateTime(0), e, NULL) :
        id \in {F1, F2}, e \in {DateTime(0), DateTime(870000)}}
    \cup {Flight(id, DateTime(0), DateTime(870000), NULL) : id \in {NULL, Text(<<>>)}}

\* One flight whose estimate and gate change.
ErrFlights ==
    {Flight(F1, DateTime(0), e, g) :
        e \in {DateTime(0), DateTime(870000)}, g \in {NULL, Text(<<"A">>)}}

\* The INSERT statements of one call that raise: none, or one of them.
ErrorSets(flights) ==
    {{}} \cup {{<<i, a>>} : i \in 1..Len(flights),
                           a \in {"estimated_departure_utc", "departure_gate", "snapshot"}}

\* One flight whose estimate changes, as a cycle receives it.
CycleFlights ==
    {Flight(F1, DateTime(0), e, NULL) : e \in {DateTime(0), DateTime(870000)}}

\* What goes wrong in one cycle: nothing, conn.commit() raises sqlite3.Error,
\* or the statements of detect_changes for flights[at] raise an Exception
\* ("error") or the cycle is interrupted from the keyboard there.
Faults(flights) ==
    {[kind |-> "none", at |-> 0]}
    \cup (IF flights = <<>> THEN {}
          ELSE {[kind |-> "commit", at |-> 0]}
               \cup {[kind |-> k, at |-> i] :
                        k \in {"error", "interrupt"}, i \in 1..Len(flights)})

AA == Text(<<"A", "A">>)

\* Snapshot rows as the ranking reads them: a flight of airline AA stored
\* under two spellings of the airline name or without a name, and a flight
\* without airline code.
AirlineSnapshots ==
    {[unique_flight_id |-> F1, airline_iata |-> AA, airline_name |-> n] :
        n \in {Text(<<"A", "i", "r">>), Text(<<"A", "I", "R">>), NULL}}
    \cup {[unique_flight_id |-> F2, airline_iata |-> NULL, airline_name |-> NULL]}

AirlineChanges ==
    {[unique_flight_id |-> f, attribute_changed |-> a] :
        f \in {F1, F2}, a \in {"estimated_departure_utc", "departure_gate"}}

\* The airlines and attributes of the frames given to the ranking.
RankAirlines ==
    <<[airline_iata |-> AA, airline_name |-> Text(<<"A", "i", "r">>)],
      [airline_iata |-> Text(<<"B", "B">>), airline_name |-> Text(<<"B", "e", "e">>)],
      [airline_iata |-> Text(<<"C", "C">>), airline_name |-> Text(<<"C", "e", "e">>)]>>

RankAttributes ==
    <<"scheduled_departure_utc", "estimated_departure_utc", "departure_gate">>

\* The frame that holds counts[i][j] change records of attribute j for
\* airline i, with distinct change ids.
FrameOf(counts) ==
    {[airline_iata |-> RankAirlines[i].airline_iata,
      airline_name |-> RankAirlines[i].airline_name,
      attribute_changed |-> RankAttributes[j],
      change_id |-> ((i - 1) * Len(RankAttributes) + (j - 1)) * MaxCount + n] :
        <<i, j, n>> \in {x \in (1..Len(RankAirlines)) \X (1..Len(RankAttributes))
                                   \X (1..MaxCount) : x[3] <= counts[x[1]][x[2]]}}

\* Snapshot rows and change records as the delay report reads them: delays
\* of 4, 5 and 10 minutes, an advance of 5 minutes, and a gate change.
DelaySnapshots == {[unique_flight_id |-> f] : f \in {F1, F2}}

DelayChanges ==
    {[unique_flight_id |-> f,
      attribute_changed |-> "estimated_departure_utc",
      previous_value |-> IsoText(v[1], "T"),
      new_value |-> IsoText(v[2], " ")] :
        f \in {F1, F2},
        v \in {<<0, 240000000>>, <<0, 300000000>>, <<0, 600000000>>, <<300000000, 0>>}}
    \cup {[unique_flight_id |-> f,
           attribute_changed |-> "departure_gate",
           previous_value |-> Text(<<"A">>),
           new_value |-> Text(<<"B">>)] : f \in {F1, F2}}

MinDelayValues == {0, 5}

\* The dictionaries given to insert_snapshot: the timestamp is a datetime,
\* a string with either separator, or None; is_operator is a bool or the
\* key is absent.
SnapshotDicts ==
    {[unique_flight_id |-> f, workspace_timestamp |-> w, is_operator |-> Bool(b)] :
        f \in {F1, F2},
        w \in {DateTime(0), DateTime(1000), IsoText(1000, " "), NULL},
        b \in BOOLEAN}
    \cup {[unique_flight_id |-> F1, workspace_timestamp |-> w] :
             w \in {DateTime(0), DateTime(1000)}}

\* Departures as the API model allows them: every nested part can be
\* missing; the scheduled time is on one of two days, at one of two times.
Departures ==
    {[number |-> n, airline |-> a, movement |-> m, codeshareStatus |-> NULL] :
        n \in {NULL, Text(<<"1", "2">>)},
        a \in {NULL, [iata |-> Text(<<>>)], [iata |-> AA]},
        m \in {NULL} \cup
              {[airport |-> p, scheduledTime |-> st, revisedTime |-> NULL, gate |-> g] :
                  p \in {NULL, [iata |-> NULL], [iata |-> Text(<<"J", "F", "K">>)]},
                  st \in {NULL, [utc |-> NULL], [utc |-> DateTimeOn(0, 0)],
                          [utc |-> DateTimeOn(0, 900)], [utc |-> DateTimeOn(1, 0)]},
                  g \in {NULL, Text(<<"A">>)}}}

\* The tables of at most n rows over a set of rows, numbered in insertion
\* order in the column key.
Tables(rows, n, key) ==
    UNION {{[i \in 1..k |-> [col \in DOMAIN t[i] \cup {key} |->
                                IF col = key THEN i ELSE t[i][col]]] :
               t \in [1..k -> rows]} : k \in 0..n}

\* The lists of one or two records passed to one call.
Batches(F) == {<<f>> : f \in F} \cup {<<f, g>> : f \in F, g \in F}

Responses ==
    {[raises |-> FALSE, status |-> HTTP_OK, valid |-> TRUE, departures |-> d] :
        d \in {<<>>,
               <<Flight(F1, DateTime(0), DateTime(0), NULL),
                 Flight(F2, DateTime(0), DateTime(0), NULL)>>}}
    \cup {[raises |-> FALSE, status |-> HTTP_OK, valid |-> FALSE, departures |-> <<>>],
          [raises |-> FALSE, status |-> 500, valid |-> FALSE, departures |-> <<>>],
          [raises |-> FALSE, status |-> 500, valid |-> TRUE,
           departures |-> <<Flight(F1, DateTime(0), DateTime(0), NULL)>>],
          [raises |-> TRUE, status |-> 0, valid |-> FALSE, departures |-> <<>>]}

-----------------------------------------------------------------------------
(* The snapshot functions of src/src/database.py.  They write and read the  *)
(* same table; a row carries the columns the claims about them read.        *)

\* datetime.isoformat()
isoformat(dt) == IsoText(dt.us, "T")

\* insert_snapshot(conn, snapshot_data, cycle_timestamp): the row that is
\* bound to the INSERT, and the table after it.  A NULL in a NOT NULL
\* column makes the INSERT raise; the function then returns None.
insert_snapshot(snaps, snapshot_data, cycle_timestamp) ==
    LET get(key) == IF key \in DOMAIN snapshot_data THEN snapshot_data[key] ELSE NULL
        workspace_timestamp ==
            IF get("workspace_timestamp").t = "datetime"
            THEN isoformat(get("workspace_timestamp"))
            ELSE get("workspace_timestamp")
        is_operator ==
            IF "is_operator" \in DOMAIN snapshot_data
            THEN IF Truthy(snapshot_data.is_operator) THEN Integer(1) ELSE Integer(0)
            ELSE NULL
        row == [snapshot_id |-> Len(snaps) + 1,
                unique_flight_id |-> get("unique_flight_id"),
                cycle_timestamp |-> cycle_timestamp,
                workspace_timestamp |-> workspace_timestamp,
                is_operator |-> is_operator]
    IN  IF row.unique_flight_id = NULL \/ row.workspace_timestamp = NULL
        THEN [snaps |-> snaps, lastrowid |-> NULL]
        ELSE [snaps |-> Append(snaps, row), lastrowid |-> Integer(row.snapshot_id)]

\* The order of two ISO texts of the same calendar day as SQLite compares
\* TEXT values: byte by byte, so a text with separator " " comes before
\* every text with separator "T".
text_less(a, b) ==
    \/ a.sep = " " /\ b.sep = "T"
    \/ a.sep = b.sep /\ a.us < b.us

\* Variant: ORDER BY workspace_timestamp ASC.
get_latest_snapshot_Ascending(snaps, unique_flight_id) ==
    LET rows == {snaps[i] : i \in {j \in 1..Len(snaps) :
                                      snaps[j].unique_flight_id = unique_flight_id}}
    IN  {r \in rows : \A q \in rows :
            ~text_less(q.workspace_timestamp, r.workspace_timestamp)}

\* get_latest_snapshot(conn, unique_flight_id): the rows the query can
\* return, those of the identity that no other row of it follows in the
\* order of workspace_timestamp (LIMIT 1 returns one of them, None when
\* there is none).
get_latest_snapshot(snaps, unique_flight_id) ==
    LET rows == {snaps[i] : i \in {j \in 1..Len(snaps) :
                                      snaps[j].unique_flight_id = unique_flight_id}}
    IN  {r \in rows : \A q \in rows :
            ~text_less(r.workspace_timestamp, q.workspace_timestamp)}

-----------------------------------------------------------------------------
(* The airline ranking (src/src/ranking.py).  The result of a query is the  *)
(* set of its rows; the rows of a table carry the columns the query reads.  *)

\* The subquery of extract_airline_changes: one row for each group of
\* (unique_flight_id, airline_iata, airline_name) among the snapshots whose
\* airline_iata is not NULL, with the greatest snapshot_id of the group.
airline_groups(snaps) ==
    LET rows == {i \in 1..Len(snaps) : snaps[i].airline_iata # NULL}
    IN  {[unique_flight_id |-> snaps[i].unique_flight_id,
          airline_iata |-> snaps[i].airline_iata,
          airline_name |-> snaps[i].airline_name,
          latest_snapshot_id |->
              CHOOSE m \in {snaps[j].snapshot_id : j \in rows} :
                  /\ \E j \in rows :
                        /\ snaps[j].snapshot_id = m
                        /\ snaps[j].unique_flight_id = snaps[i].unique_flight_id
                        /\ snaps[j].airline_iata = snaps[i].airline_iata
                        /\ snaps[j].airline_name = snaps[i].airline_name
                  /\ \A j \in rows :
                        (/\ snaps[j].unique_flight_id = snaps[i].unique_flight_id
                         /\ snaps[j].airline_iata = snaps[i].airline_iata
                         /\ snaps[j].airline_name = snaps[i].airline_name)
                            => snaps[j].snapshot_id <= m] : i \in rows}

\* extract_airline_changes: flight_changes joined with the groups on
\* unique_flight_id.
extract_airline_changes(snaps, chgs) ==
    {[airline_iata |-> fs.airline_iata,
      airline_name |-> fs.airline_name,
      attribute_changed |-> chgs[k].attribute_changed,
      change_id |-> chgs[k].change_id] :
        <<k, fs>> \in {x \in (1..Len(chgs)) \X airline_groups(snaps) :
                          chgs[x[1]].unique_flight_id = x[2].unique_flight_id}}

\* The keys of groupby(['airline_iata', 'airline_name']): rows with a
\* missing key are left out of the groups.
group_keys(rows) ==
    {[airline_iata |-> r.airline_iata, airline_name |-> r.airline_name] :
        r \in {x \in rows : x.airline_iata # NULL /\ x.airline_name # NULL}}

\* .size() of one group
group_size(rows, key) ==
    Cardinality({r \in rows : /\ r.airline_iata = key.airline_iata
                              /\ r.airline_name = key.airline_name})

\* Variant: rank(ascending=False, method='min').
rank_MethodMin(counts, key) ==
    1 + Cardinality({k \in DOMAIN counts : counts[k] > counts[key]})

\* Series.rank(ascending=False, method='dense')
rank(counts, key) ==
    1 + Cardinality({counts[k] : k \in {x \in DOMAIN counts : counts[x] > counts[key]}})

\* str.contains('_departure_utc') on the attribute names of the change log
contains_departure_utc(attribute) ==
    attribute \in {"scheduled_departure_utc", "estimated_departure_utc"}

calculate_time_change_ranking(df) ==
    LET time_changes == {r \in df : contains_departure_utc(r.attribute_changed)}
        airline_counts == [k \in group_keys(time_changes) |-> group_size(time_changes, k)]
    IN  {[airline_iata |-> k.airline_iata,
          airline_name |-> k.airline_name,
          time_changes |-> airline_counts[k],
          time_change_rank |-> rank(airline_counts, k)] : k \in DOMAIN airline_counts}

calculate_gate_change_ranking(df) ==
    LET gate_changes == {r \in df : r.attribute_changed = "departure_gate"}
        airline_counts == [k \in group_keys(gate_changes) |-> group_size(gate_changes, k)]
    IN  {[airline_iata |-> k.airline_iata,
          airline_name |-> k.airline_name,
          gate_changes |-> airline_counts[k],
          gate_change_rank |-> rank(airline_counts, k)] : k \in DOMAIN airline_counts}

\* pd.merge(..., how='outer').fillna(0): a row for every key of either
\* frame; the columns of the frame that lacks the key, its rank included,
\* are filled with 0.
merge_outer_fillna(time_df, gate_df) ==
    LET key(r) == [airline_iata |-> r.airline_iata, airline_name |-> r.airline_name]
        keys == {key(r) : r \in time_df} \cup {key(r) : r \in gate_df}
        time_of(k) == IF \E r \in time_df : key(r) = k
                      THEN CHOOSE r \in time_df : key(r) = k
                      ELSE [time_changes |-> 0, time_change_rank |-> 0]
        gate_of(k) == IF \E r \in gate_df : key(r) = k
                      THEN CHOOSE r \in gate_df : key(r) = k
                      ELSE [gate_changes |-> 0, gate_change_rank |-> 0]
    IN  {[airline_iata |-> k.airline_iata,
          airline_name |-> k.airline_name,
          time_changes |-> time_of(k).time_changes,
          time_change_rank |-> time_of(k).time_change_rank,
          gate_changes |-> gate_of(k).gate_changes,
          gate_change_rank |-> gate_of(k).gate_change_rank] : k \in keys}

calculate_overall_ranking(time_df, gate_df) ==
    LET merged == merge_outer_fillna(time_df, gate_df)
        total == [r \in merged |-> r.time_changes + r.gate_changes]
    IN  {[airline_iata |-> r.airline_iata,
          airline_name |-> r.airline_name,
          time_changes |-> r.time_changes,
          time_change_rank |-> r.time_change_rank,
          gate_changes |-> r.gate_changes,
          gate_change_rank |-> r.gate_change_rank,
          total_changes |-> total[r],
          overall_rank |-> rank(total, r)] : r \in merged}

TopN == 5

\* df.sort_values(column).head(TopN): the results the sort can give, the
\* order of rows with equal keys being any.
sort_values_head(df, column) ==
    LET n == Cardinality(df)
        sorted == {f \in [1..n -> df] :
                      /\ \A i, j \in 1..n : i # j => f[i] # f[j]
                      /\ \A i \in 1..(n - 1) : f[i][column] <= f[i + 1][column]}
    IN  {SubSeq(f, 1, IF n < TopN THEN n ELSE TopN) : f \in sorted}

\* One line of a section of the report: rank, name, code and count.
report_line(row, rank_column, count_column) ==
    [position |-> row[rank_column],
     airline_name |-> row.airline_name,
     airline_iata |-> row.airline_iata,
     changes |-> row[count_column]]

report_section(rows, rank_column, count_column) ==
    [i \in 1..Len(rows) |-> report_line(rows[i], rank_column, count_column)]

\* generate_summary_report: the three sections of the text, for the given
\* results of the three sorts.
generate_summary_report(top_time, top_gate, top_overall) ==
    [time |-> report_section(top_time, "time_change_rank", "time_changes"),
     gate |-> report_section(top_gate, "gate_change_rank", "gate_changes"),
     overall |-> report_section(top_overall, "overall_rank", "total_changes")]

-----------------------------------------------------------------------------
(* The delay report (src/src/reports.py).                                   *)

UsPerMinute == 60000000

\* pd.to_datetime of an ISO text, with either separator: the instant.
to_datetime(v) == [t |-> "timestamp", us |-> v.us]

\* The query of extract_delay_data: every estimated_departure_utc record
\* joined with every snapshot of its flight; a row is labelled by the
\* change and the snapshot it comes from.
delay_query(snaps, chgs) ==
    {[unique_flight_id |-> chgs[c].unique_flight_id,
      change_id |-> chgs[c].change_id,
      snapshot_id |-> snaps[f].snapshot_id,
      previous_value |-> chgs[c].previous_value,
      new_value |-> chgs[c].new_value] :
        <<c, f>> \in {x \in (1..Len(chgs)) \X (1..Len(snaps)) :
                         /\ chgs[x[1]].attribute_changed = "estimated_departure_utc"
                         /\ chgs[x[1]].unique_flight_id = snaps[x[2]].unique_flight_id}}

\* The column delay_minutes, kept in microseconds.
with_delay(df) ==
    {[unique_flight_id |-> r.unique_flight_id,
      change_id |-> r.change_id,
      snapshot_id |-> r.snapshot_id,
      delay_us |-> to_datetime(r.new_value).us - to_datetime(r.previous_value).us] :
        r \in df}

\* Variant: a delay of exactly min_delay_minutes is left out.
is_significant_Strict(delay_us, min_delay_minutes) ==
    delay_us > min_delay_minutes * UsPerMinute

\* df['delay_minutes'] >= min_delay_minutes
is_significant(delay_us, min_delay_minutes) ==
    delay_us >= min_delay_minutes * UsPerMinute

significant_delays(df, min_delay_minutes) ==
    {r \in df : is_significant(r.delay_us, min_delay_minutes)}

\* groupby('unique_flight_id')['delay_minutes'].idxmax(): for each flight
\* the rows idxmax can name, those of greatest delay (which of them comes
\* first depends on the order the query returned them in).
idxmax_rows(df) ==
    [f \in {r.unique_flight_id : r \in df} |->
        {r \in df : /\ r.unique_flight_id = f
                    /\ \A q \in df : q.unique_flight_id = f => q.delay_us <= r.delay_us}]

-----------------------------------------------------------------------------
(* run_monitor.  Its state is its arguments, the position reached (pc), the *)
(* loop variable, the connection, and a record of what it did: the cycles   *)
(* it started with their outcomes, the sleeps, the calls of conn.close().   *)

MonitorIdle ==
    [pc |-> "idle", max_cycles |-> 0, interval_seconds |-> 0, cycle_num |-> 0,
     conn |-> "none", closes |-> 0, outcomes |-> <<>>, sleeps |-> <<>>,
     elapsed_time |-> 0, wait_time |-> 0, exit |-> "none"]

\* The values of interval_seconds and of the time one cycle takes.
IntervalValues == {0, 2}

ElapsedValues == {1, 3}

\* Variant: the sleep is not left out after the last cycle.
should_sleep_Always(cycle_num, max_cycles) == cycle_num <= max_cycles

\* "if cycle_num < max_cycles:" before time.sleep
should_sleep(cycle_num, max_cycles) == cycle_num < max_cycles

\* wait_time = max(0, interval_seconds - elapsed_time)
wait_time(interval_seconds, elapsed_time) ==
    IF 0 >= interval_seconds - elapsed_time THEN 0 ELSE interval_seconds - elapsed_time

\* "for cycle_num in range(1, max_cycles + 1)": the position after the
\* iteration cycle_num - 1.
for_next(m, cycle_num) ==
    IF cycle_num <= m.max_cycles
    THEN [m EXCEPT !.pc = "cycle", !.cycle_num = cycle_num]
    ELSE [m EXCEPT !.pc = "finally", !.exit = "completed"]

\* Variant: an exception of a cycle leaves the loop.
after_cycle_Propagate(m, outcome, elapsed_time) ==
    LET done == [m EXCEPT !.outcomes = Append(@, outcome)]
    IN  IF outcome = "interrupt"
        THEN [done EXCEPT !.pc = "finally", !.exit = "interrupt_cycle"]
        ELSE IF outcome = "error"
        THEN [done EXCEPT !.pc = "finally", !.exit = "error"]
        ELSE IF should_sleep(m.cycle_num, m.max_cycles)
             THEN [done EXCEPT !.pc = "sleep",
                               !.elapsed_time = elapsed_time,
                               !.wait_time = wait_time(m.interval_seconds, elapsed_time)]
             ELSE for_next(done, m.cycle_num + 1)

\* The body of the loop after run_monitor_cycle ended with outcome: "ok",
\* "error" (an Exception, caught by the inner handler) or "interrupt"
\* (KeyboardInterrupt, caught by the outer handler).
after_cycle(m, outcome, elapsed_time) ==
    LET done == [m EXCEPT !.outcomes = Append(@, outcome)]
    IN  IF outcome = "interrupt"
        THEN [done EXCEPT !.pc = "finally", !.exit = "interrupt_cycle"]
        ELSE IF should_sleep(m.cycle_num, m.max_cycles)
             THEN [done EXCEPT !.pc = "sleep",
                               !.elapsed_time = elapsed_time,
                               !.wait_time = wait_time(m.interval_seconds, elapsed_time)]
             ELSE for_next(done, m.cycle_num + 1)

-----------------------------------------------------------------------------
(* Operations.                                                              *)

\* State after setup_database on a new database file.
Init ==
    /\ flight_snapshots = <<>>
    /\ flight_changes = <<>>
    /\ committed_snapshots = <<>>
    /\ committed_changes = <<>>
    /\ now = 1
    /\ last = [op |-> "setup_database"]
    /\ monitor = MonitorIdle

\* process_flight_data(conn, flights, cycle_timestamp), called with the
\* current time as cycle timestamp; rows is the cap on the snapshot table.
ProcessFlightData(flights, rows) ==
    /\ now <= MaxClock
    /\ Len(flight_snapshots) + Len(flights) <= rows
    /\ LET r == process_flight_data(flight_snapshots, flight_changes, flights, now)
       IN  /\ flight_snapshots' = r.snaps
           /\ flight_changes' = r.chgs
           /\ last' = [op |-> "process_flight_data",
                       flights |-> flights,
                       cycle_timestamp |-> now,
                       snaps |-> flight_snapshots,
                       log |-> flight_changes,
                       steps |-> r.steps,
                       ret |-> r.total_changes]
    /\ now' = now + 1
    /\ UNCHANGED <<committed_snapshots, committed_changes>>

\* process_flight_data(conn, flights, cycle_timestamp) when the INSERT
\* statements in errors raise sqlite3.Error.
ProcessFlightDataErr(flights, errors, rows) ==
    /\ now <= MaxClock
    /\ Len(flight_snapshots) + Len(flights) <= rows
    /\ LET r == process_flight_data_err(flight_snapshots, flight_changes, flights,
                                        now, errors)
       IN  /\ flight_snapshots' = r.snaps
           /\ flight_changes' = r.chgs
           /\ last' = [op |-> "process_flight_data",
                       flights |-> flights,
                       cycle_timestamp |-> now,
                       errors |-> errors,
                       snaps |-> flight_snapshots,
                       log |-> flight_changes,
                       steps |-> r.steps,
                       ret |-> r.total_changes]
    /\ now' = now + 1
    /\ UNCHANGED <<committed_snapshots, committed_changes>>

\* run_monitor_cycle(conn) when the remote API answers resp.
RunMonitorCycle(resp) ==
    /\ now <= MaxClock
    /\ now' = now + 1
    /\ LET current_cycle_timestamp == now
           flights == fetch_flight_data(resp)
       IN  IF flights = <<>>
           THEN /\ UNCHANGED <<flight_snapshots, flight_changes,
                               committed_snapshots, committed_changes>>
                /\ last' = [op |-> "run_monitor_cycle", response |-> resp,
                            cycle_timestamp |-> current_cycle_timestamp,
                            snaps |-> flight_snapshots, log |-> flight_changes,
                            flights |-> flights, steps |-> <<>>, ret |-> 0]
           ELSE LET r == process_flight_data(flight_snapshots, flight_changes,
                                             flights, current_cycle_timestamp)
                IN  \E commit_ok \in BOOLEAN :
                       /\ last' = [op |-> "run_monitor_cycle", response |-> resp,
                                   cycle_timestamp |-> current_cycle_timestamp,
                                   snaps |-> flight_snapshots, log |-> flight_changes,
                                   flights |-> flights, steps |-> r.steps,
                                   ret |-> IF commit_ok THEN r.total_changes ELSE 0]
                       /\ IF commit_ok
                          THEN /\ flight_snapshots' = r.snaps
                               /\ flight_changes' = r.chgs
                               /\ committed_snapshots' = r.snaps
                               /\ committed_changes' = r.chgs
                          ELSE /\ flight_snapshots' = committed_snapshots
                               /\ flight_changes' = committed_changes
                               /\ UNCHANGED <<committed_snapshots, committed_changes>>

\* Variant: the handler of a failed commit without conn.rollback().
rollback_Missing(committed, written) == written

\* conn.rollback(): the connection sees the committed rows again.
rollback(committed, written) == committed

\* How the cycle ends for run_monitor: it returns ("ok") or raises.
cycle_outcome(fault) ==
    IF fault.kind \in {"error", "interrupt"} THEN fault.kind ELSE "ok"

\* run_monitor_cycle(conn) from the point where fetch_flight_data() has
\* returned flights, on a connection where fault happens.  An exception
\* raised while flights[fault.at] is processed leaves the function before
\* the commit: the rows written for the flights before it stay in the
\* open transaction of the connection.
RunMonitorCycleWith(flights, fault) ==
    /\ now <= MaxClock
    /\ now' = now + 1
    /\ LET current_cycle_timestamp == now
           done == IF fault.kind \in {"error", "interrupt"}
                   THEN SubSeq(flights, 1, fault.at - 1)
                   ELSE flights
           r == process_flight_data(flight_snapshots, flight_changes,
                                    done, current_cycle_timestamp)
           entry == [op |-> "run_monitor_cycle",
                     cycle_timestamp |-> current_cycle_timestamp,
                     snaps |-> flight_snapshots, log |-> flight_changes,
                     before |-> [snaps |-> committed_snapshots,
                                 chgs |-> committed_changes],
                     flights |-> flights, fault |-> fault]
       IN  IF flights = <<>>
           THEN /\ UNCHANGED <<flight_snapshots, flight_changes,
                               committed_snapshots, committed_changes>>
                /\ last' = entry @@ [steps |-> <<>>, end |-> "no_data", ret |-> 0]
           ELSE IF cycle_outcome(fault) # "ok"
           THEN /\ flight_snapshots' = r.snaps
                /\ flight_changes' = r.chgs
                /\ UNCHANGED <<committed_snapshots, committed_changes>>
                /\ last' = entry @@ [steps |-> r.steps, end |-> "raised"]
           ELSE IF fault.kind = "commit"
           THEN /\ flight_snapshots' = rollback(committed_snapshots, r.snaps)
                /\ flight_changes' = rollback(committed_changes, r.chgs)
                /\ UNCHANGED <<committed_snapshots, committed_changes>>
                /\ last' = entry @@ [steps |-> r.steps, end |-> "rolled_back", ret |-> 0]
           ELSE /\ flight_snapshots' = r.snaps
                /\ flight_changes' = r.chgs
                /\ committed_snapshots' = r.snaps
                /\ committed_changes' = r.chgs
                /\ last' = entry @@ [steps |-> r.steps, end |-> "committed",
                                     ret |-> r.total_changes]

\* create_table(conn): the tables exist, so the CREATE statements change
\* nothing; conn.commit() commits the rows the connection has written.
CreateTable ==
    /\ committed_snapshots' = flight_snapshots
    /\ committed_changes' = flight_changes
    /\ last' = [op |-> "create_table"]
    /\ UNCHANGED <<flight_snapshots, flight_changes, now, monitor>>

\* A database that holds snapshots and change records of earlier runs.
InitRanking ==
    /\ flight_snapshots \in Tables(AirlineSnapshots, MaxTable, "snapshot_id")
    /\ flight_changes \in Tables(AirlineChanges, MaxTable, "change_id")
    /\ committed_snapshots = flight_snapshots
    /\ committed_changes = flight_changes
    /\ now = 1
    /\ last = [op |-> "get_db_connection"]
    /\ monitor = MonitorIdle

\* extract_airline_changes(conn)
ExtractAirlineChanges ==
    /\ last.op = "get_db_connection"
    /\ last' = [op |-> "extract_airline_changes",
                df |-> extract_airline_changes(flight_snapshots, flight_changes)]
    /\ UNCHANGED <<flight_snapshots, flight_changes, committed_snapshots,
                   committed_changes, now, monitor>>

\* extract_airline_changes has returned a frame.
InitFrame ==
    /\ flight_snapshots = <<>>
    /\ flight_changes = <<>>
    /\ committed_snapshots = <<>>
    /\ committed_changes = <<>>
    /\ now = 1
    /\ \E counts \in [1..Len(RankAirlines) -> [1..Len(RankAttributes) -> 0..MaxCount]] :
          last = [op |-> "extract_airline_changes", df |-> FrameOf(counts)]
    /\ monitor = MonitorIdle

\* run_ranking_analysis after the extraction: nothing for an empty frame,
\* else the three rankings and the report.
RunRankingAnalysis ==
    /\ last.op = "extract_airline_changes"
    /\ LET df == last.df
           time_ranking == calculate_time_change_ranking(df)
           gate_ranking == calculate_gate_change_ranking(df)
           overall_ranking == calculate_overall_ranking(time_ranking, gate_ranking)
       IN  IF df = {}
           THEN last' = [op |-> "run_ranking_analysis", df |-> df, empty |-> TRUE]
           ELSE \E top_time \in sort_values_head(overall_ranking, "time_change_rank"),
                   top_gate \in sort_values_head(overall_ranking, "gate_change_rank"),
                   top_overall \in sort_values_head(overall_ranking, "overall_rank") :
                   last' = [op |-> "run_ranking_analysis", df |-> df, empty |-> FALSE,
                            time_ranking |-> time_ranking,
                            gate_ranking |-> gate_ranking,
                            overall_ranking |-> overall_ranking,
                            report |-> generate_summary_report(top_time, top_gate,
                                                               top_overall)]
    /\ UNCHANGED <<flight_snapshots, flight_changes, committed_snapshots,
                   committed_changes, now, monitor>>

\* A database whose change records belong to flights that have snapshots.
InitDelays ==
    /\ flight_snapshots \in Tables(DelaySnapshots, MaxTable, "snapshot_id")
    /\ flight_changes \in Tables(DelayChanges, MaxTable, "change_id")
    /\ \A c \in 1..Len(flight_changes) :
          \E f \in 1..Len(flight_snapshots) :
              flight_snapshots[f].unique_flight_id = flight_changes[c].unique_flight_id
    /\ committed_snapshots = flight_snapshots
    /\ committed_changes = flight_changes
    /\ now = 1
    /\ last = [op |-> "get_db_connection"]
    /\ monitor = MonitorIdle

\* extract_delay_data(conn, min_delay_minutes)
ExtractDelayData(min_delay_minutes) ==
    /\ last.op = "get_db_connection"
    /\ LET df == delay_query(flight_snapshots, flight_changes)
           significant == significant_delays(with_delay(df), min_delay_minutes)
           candidates == idxmax_rows(significant)
       IN  IF df = {}
           THEN last' = [op |-> "extract_delay_data",
                         min_delay_minutes |-> min_delay_minutes, result |-> {}]
           ELSE \E idxmax \in [DOMAIN candidates -> significant] :
                   /\ \A f \in DOMAIN candidates : idxmax[f] \in candidates[f]
                   /\ last' = [op |-> "extract_delay_data",
                               min_delay_minutes |-> min_delay_minutes,
                               result |-> {r \in significant :
                                              \E f \in DOMAIN idxmax : r = idxmax[f]}]
    /\ UNCHANGED <<flight_snapshots, flight_changes, committed_snapshots,
                   committed_changes, now, monitor>>

\* insert_snapshot(conn, snapshot_data, cycle_timestamp): the INSERT and
\* the commit, or the error.
InsertSnapshot(snapshot_data) ==
    /\ Len(flight_snapshots) < MaxTable
    /\ LET r == insert_snapshot(flight_snapshots, snapshot_data, now)
       IN  /\ flight_snapshots' = r.snaps
           /\ IF r.lastrowid = NULL
              THEN UNCHANGED <<committed_snapshots, committed_changes>>
              ELSE /\ committed_snapshots' = r.snaps
                   /\ committed_changes' = flight_changes
           /\ last' = [op |-> "insert_snapshot", snapshot_data |-> snapshot_data,
                       ret |-> r.lastrowid]
    /\ UNCHANGED <<flight_changes, now, monitor>>

\* get_latest_snapshot(conn, unique_flight_id)
GetLatestSnapshot(unique_flight_id) ==
    /\ LET rows == get_latest_snapshot(flight_snapshots, unique_flight_id)
       IN  \E result \in IF rows = {} THEN {NULL} ELSE rows :
               last' = [op |-> "get_latest_snapshot",
                        unique_flight_id |-> unique_flight_id,
                        result |-> result,
                        after |-> IF last.op = "insert_snapshot" THEN last
                                  ELSE [op |-> last.op]]
    /\ UNCHANGED <<flight_snapshots, flight_changes, committed_snapshots,
                   committed_changes, now, monitor>>

InsertSnapshots == \E snapshot_data \in SnapshotDicts : InsertSnapshot(snapshot_data)

GetLatestSnapshots == \E unique_flight_id \in {F1, F2} : GetLatestSnapshot(unique_flight_id)

\* GetData.save_data(flight_data): the records it builds and writes to the
\* CSV file.
SaveData(departures) ==
    /\ last' = [op |-> "save_data", departures |-> departures,
                records |-> build_records(departures)]
    /\ UNCHANGED <<flight_snapshots, flight_changes, committed_snapshots,
                   committed_changes, now, monitor>>

SaveDepartures == \E departures \in {<<>>} \cup {<<d>> : d \in Departures} : SaveData(departures)

\* run_monitor(max_cycles, interval_seconds) up to the first cycle:
\* setup_database gives a connection or None.
RunMonitor(max_cycles, interval_seconds, db_ok) ==
    /\ monitor.pc = "idle"
    /\ monitor' =
          LET m == [monitor EXCEPT !.max_cycles = max_cycles,
                                   !.interval_seconds = interval_seconds]
          IN  IF db_ok
              THEN for_next([m EXCEPT !.conn = "open"], 1)
              ELSE [m EXCEPT !.pc = "done", !.exit = "no_database"]
    /\ last' = [op |-> "setup_database"]
    /\ UNCHANGED <<flight_snapshots, flight_changes, committed_snapshots,
                   committed_changes, now>>

\* One iteration of the loop of run_monitor up to the sleep: the cycle runs
\* and returns, raises an Exception, or is interrupted from the keyboard.
MonitorCycle(outcome, elapsed_time) ==
    /\ monitor.pc = "cycle"
    /\ monitor' = after_cycle(monitor, outcome, elapsed_time)
    /\ IF outcome = "ok"
       THEN \E resp \in Responses : RunMonitorCycle(resp)
       ELSE /\ now <= MaxClock
            /\ now' = now + 1
            /\ last' = [op |-> "run_monitor_cycle_raised", outcome |-> outcome]
            /\ UNCHANGED <<flight_snapshots, flight_changes, committed_snapshots,
                           committed_changes>>

\* One iteration of the loop of run_monitor up to the sleep, when
\* fetch_flight_data() returns flights and fault happens in the cycle.
MonitorCycleWith(flights, fault, elapsed_time) ==
    /\ monitor.pc = "cycle"
    /\ monitor' = after_cycle(monitor, cycle_outcome(fault), elapsed_time)
    /\ RunMonitorCycleWith(flights, fault)

\* time.sleep(wait_time) returns, or is interrupted from the keyboard.
MonitorSleep(interrupted) ==
    /\ monitor.pc = "sleep"
    /\ monitor' =
          LET slept == [monitor EXCEPT
                           !.sleeps = Append(@, [after |-> monitor.cycle_num,
                                                 elapsed |-> monitor.elapsed_time,
                                                 seconds |-> monitor.wait_time])]
          IN  IF interrupted
              THEN [slept EXCEPT !.pc = "finally", !.exit = "interrupt_sleep"]
              ELSE for_next(slept, monitor.cycle_num + 1)
    /\ last' = [op |-> "sleep", interrupted |-> interrupted]
    /\ UNCHANGED <<flight_snapshots, flight_changes, committed_snapshots,
                   committed_changes, now>>

\* "finally: if conn: conn.close()", and run_monitor returns.  Closing the
\* connection discards what it had not committed.
MonitorFinally ==
    /\ monitor.pc = "finally"
    /\ monitor' = [monitor EXCEPT !.pc = "done",
                                  !.conn = IF @ = "open" THEN "closed" ELSE @,
                                  !.closes = IF monitor.conn = "open" THEN @ + 1 ELSE @]
    /\ flight_snapshots' = committed_snapshots
    /\ flight_changes' = committed_changes
    /\ last' = [op |-> "close"]
    /\ UNCHANGED <<committed_snapshots, committed_changes, now>>

MonitorStart ==
    \E max_cycles \in 0..MaxClock, interval_seconds \in IntervalValues, db_ok \in BOOLEAN :
        RunMonitor(max_cycles, interval_seconds, db_ok)

MonitorIteration ==
    \E outcome \in {"ok", "error", "interrupt"}, elapsed_time \in ElapsedValues :
        MonitorCycle(outcome, elapsed_time)

MonitorWait == \E interrupted \in BOOLEAN : MonitorSleep(interrupted)

MonitorIterationWith ==
    \E flights \in {<<>>} \cup Batches(CycleFlights), elapsed_time \in ElapsedValues :
        \E fault \in Faults(flights) : MonitorCycleWith(flights, fault, elapsed_time)

ProcessMixed ==
    /\ \E flights \in Batches(MixedFlights) : ProcessFlightData(flights, MaxRows)
    /\ UNCHANGED monitor

ProcessGate ==
    /\ \E flights \in Batches(GateFlights) : ProcessFlightData(flights, MaxRowsGate)
    /\ UNCHANGED monitor

ProcessPair ==
    /\ \E flights \in Batches(PairFlights) : ProcessFlightData(flights, MaxRowsPair)
    /\ UNCHANGED monitor

ProcessErr ==
    /\ \E flights \in Batches(ErrFlights) :
          \E errors \in ErrorSets(flights) : ProcessFlightDataErr(flights, errors, MaxRowsErr)
    /\ UNCHANGED monitor

Cycle ==
    /\ \E resp \in Responses : RunMonitorCycle(resp)
    /\ UNCHANGED monitor

Next == ProcessMixed \/ Cycle \/ CreateTable

NextGate == ProcessGate

NextPair == ProcessPair

NextErr == ProcessErr \/ Cycle

NextExtract == ExtractAirlineChanges

NextRanking == RunRankingAnalysis

NextDelays == \E min_delay_minutes \in MinDelayValues : ExtractDelayData(min_delay_minutes)

NextDatabase == InsertSnapshots \/ GetLatestSnapshots

NextFetch == SaveDepartures

NextMonitor == MonitorStart \/ MonitorIteration \/ MonitorWait \/ MonitorFinally

NextCycle == MonitorStart \/ MonitorIterationWith \/ MonitorWait \/ MonitorFinally

Spec == Init /\ [][Next]_vars

\* Sequences of process_flight_data calls on the gate history of one flight.
SpecGate == Init /\ [][NextGate]_vars

\* detect_changes applied to a pair (prior snapshot, new snapshot).
SpecPair == Init /\ [][NextPair]_vars

\* Calls and cycles on a connection whose INSERT statements can fail.
SpecErr == Init /\ [][NextErr]_vars

\* extract_airline_changes applied to the tables of a database.
SpecExtract == InitRanking /\ [][NextExtract]_vars

\* The rankings and the report computed from a frame of change records.
SpecRanking == InitFrame /\ [][NextRanking]_vars

\* extract_delay_data applied to the tables of a database.
SpecDelays == InitDelays /\ [][NextDelays]_vars

\* Calls of insert_snapshot and get_latest_snapshot on a new database.
SpecDatabase == Init /\ [][NextDatabase]_vars

\* Polls of the API, each of which hands its departures to save_data.
SpecFetch == Init /\ [][NextFetch]_vars

\* One run of run_monitor whose cycles receive flight records.
SpecCycle == Init /\ [][NextCycle]_vars

\* One run of run_monitor.  It is sequential code: a step that can be taken
\* is taken, given that a cycle and a sleep return or raise.
SpecMonitor == Init /\ [][NextMonitor]_vars /\ WF_vars(NextMonitor)

-----------------------------------------------------------------------------
(* Vocabulary of the properties.  These definitions read the values         *)
(* directly and do not use the operators of the detector.                   *)

TrackedAttributes ==
    {"scheduled_departure_utc", "estimated_departure_utc", "departure_gate"}

TimeAttributes == {"scheduled_departure_utc", "estimated_departure_utc"}

ToleranceUs == 864000    \* 0.00001 day

NearUs == 863000         \* a millisecond inside the tolerance

FarUs == 865000          \* a millisecond outside the tolerance

IsProcess == last.op = "process_flight_data"

Steps == IF IsProcess THEN {last.steps[k] : k \in 1..Len(last.steps)} ELSE {}

HasEvent(step, a) ==
    \E k \in 1..Len(step.changes) : step.changes[k].attribute_changed = a

\* The change log holds no record of the flight of the step.
NoRecordsYet(step) ==
    \A i \in 1..Len(step.log) :
        step.log[i].unique_flight_id # step.flight.unique_flight_id

TimeMissing(v) == v = NULL \/ v = Text(<<>>)

DeltaUs(p, c) == IF c.us >= p.us THEN c.us - p.us ELSE p.us - c.us

\* null, empty or made of blanks only
GateMissing(g) == g = NULL \/ \A i \in 1..Len(g.s) : g.s[i] = " "

GateDiffers(p, c) ==
    \/ GateMissing(p) # GateMissing(c)
    \/ ~GateMissing(p) /\ ~GateMissing(c) /\ p.s # c.s

\* a missing gate as the change log holds it
StoredMissing(v) == v = Text(<<"N", "o", "n", "e">>) \/ GateMissing(v)

HasIdentity(f) == f.unique_flight_id # NULL /\ f.unique_flight_id # Text(<<>>)

IsPrefix(s, t) == Len(s) <= Len(t) /\ \A i \in 1..Len(s) : s[i] = t[i]

-----------------------------------------------------------------------------
(* C1 *)

\* C1 as stated: for a flight with a prior snapshot and no change records
\* yet, an event is emitted for a tracked attribute exactly when its value
\* differs from the prior one, a timestamp that appears or disappears
\* counting as a difference.
C1_AsStated ==
    \A step \in Steps :
        (step.previous # NULL /\ NoRecordsYet(step)) =>
            /\ \A a \in TimeAttributes :
                  LET p == step.previous[a]
                      c == step.flight[a]
                  IN  /\ (TimeMissing(p) /\ TimeMissing(c)) => ~HasEvent(step, a)
                      /\ (TimeMissing(p) # TimeMissing(c)) => HasEvent(step, a)
                      /\ (~TimeMissing(p) /\ ~TimeMissing(c) /\ DeltaUs(p, c) <= NearUs)
                            => ~HasEvent(step, a)
                      /\ (~TimeMissing(p) /\ ~TimeMissing(c) /\ DeltaUs(p, c) >= FarUs)
                            => HasEvent(step, a)
            /\ HasEvent(step, "departure_gate")
                  <=> GateDiffers(step.previous.departure_gate, step.flight.departure_gate)

\* C1 amended: for a flight with a prior snapshot and no change records yet,
\* a gate event is emitted exactly when the normalised gates differ (a gate
\* that appears or disappears is a difference); a timestamp event is emitted
\* only when both values are present and fail the near-equality test, and a
\* timestamp that appears or disappears emits nothing.
C1_Amended ==
    \A step \in Steps :
        (step.previous # NULL /\ NoRecordsYet(step)) =>
            /\ \A a \in TimeAttributes :
                  LET p == step.previous[a]
                      c == step.flight[a]
                  IN  /\ (TimeMissing(p) \/ TimeMissing(c)) => ~HasEvent(step, a)
                      /\ (~TimeMissing(p) /\ ~TimeMissing(c) /\ DeltaUs(p, c) <= NearUs)
                            => ~HasEvent(step, a)
                      /\ (~TimeMissing(p) /\ ~TimeMissing(c) /\ DeltaUs(p, c) >= FarUs)
                            => HasEvent(step, a)
            /\ HasEvent(step, "departure_gate")
                  <=> GateDiffers(step.previous.departure_gate, step.flight.departure_gate)

\* A step that compared an absent estimate with a present one, and another
\* attribute of the same call that did change.
C1_Witness ==
    \E step \in Steps :
        /\ step.previous # NULL
        /\ NoRecordsYet(step)
        /\ TimeMissing(step.previous.estimated_departure_utc)
        /\ ~TimeMissing(step.flight.estimated_departure_utc)
        /\ step.changes = <<>>

-----------------------------------------------------------------------------
(* C2 *)

\* C2 as stated: the change log never holds two records with the same
\* flight identity, attribute and new value.
C2_NoDuplicateChanges ==
    \A i, j \in 1..Len(flight_changes) :
        (/\ i < j
         /\ flight_changes[i].unique_flight_id = flight_changes[j].unique_flight_id
         /\ flight_changes[i].attribute_changed = flight_changes[j].attribute_changed)
            => flight_changes[i].new_value # flight_changes[j].new_value

-----------------------------------------------------------------------------
(* C3 *)

\* C3 as stated: a difference found against the prior snapshot is left out
\* of the result only when the log holds a record with the same identity,
\* attribute, previous value and new value (two forms of a missing previous
\* gate taken as the same value).
C3_SuppressedOnlyIfIdentical ==
    \A step \in Steps :
        (/\ step.previous # NULL
         /\ GateDiffers(step.previous.departure_gate, step.flight.departure_gate)
         /\ ~HasEvent(step, "departure_gate"))
            => \E i \in 1..Len(step.log) :
                  /\ step.log[i].unique_flight_id = step.flight.unique_flight_id
                  /\ step.log[i].attribute_changed = "departure_gate"
                  /\ \/ step.log[i].previous_value = Str(step.previous.departure_gate)
                     \/ /\ GateMissing(step.previous.departure_gate)
                        /\ StoredMissing(step.log[i].previous_value)
                  /\ step.log[i].new_value = Str(step.flight.departure_gate)

-----------------------------------------------------------------------------
(* C4 *)

\* C4: the snapshot a new snapshot is compared against is the row written
\* last for the same identity, rows written earlier in the same call
\* included, and there is none exactly when the identity has no row.
C4_ComparesWithLastWritten ==
    \A step \in Steps :
        LET own == {i \in 1..Len(step.snaps) :
                       step.snaps[i].unique_flight_id = step.flight.unique_flight_id}
        IN  IF own = {} THEN step.previous = NULL
            ELSE /\ step.previous # NULL
                 /\ \E i \in own : /\ \A j \in own : j <= i
                                   /\ step.previous = step.snaps[i]

\* The second record of a call is compared with the row the first record of
\* the same call wrote, while an older row of that identity and a newer row
\* of another identity exist.
C4_Witness ==
    /\ IsProcess
    /\ \E step \in Steps :
          /\ step.previous # NULL
          /\ step.previous.cycle_timestamp = last.cycle_timestamp
          /\ \E i \in 1..Len(step.snaps) :
                /\ step.snaps[i].unique_flight_id = step.flight.unique_flight_id
                /\ step.snaps[i].snapshot_id < step.previous.snapshot_id
    /\ \E step \in Steps :
          /\ step.previous # NULL
          /\ \E i \in 1..Len(step.snaps) :
                /\ step.snaps[i].unique_flight_id # step.flight.unique_flight_id
                /\ step.snaps[i].snapshot_id > step.previous.snapshot_id

-----------------------------------------------------------------------------
(* C5 *)

\* C5 as stated: two present timestamps are equal when they are at most
\* 0.864 s apart and changed when they are further apart.
C5_AsStated ==
    \A step \in Steps :
        (step.previous # NULL /\ NoRecordsYet(step)) =>
            \A a \in TimeAttributes :
                LET p == step.previous[a]
                    c == step.flight[a]
                IN  (~TimeMissing(p) /\ ~TimeMissing(c)) =>
                        (HasEvent(step, a) <=> DeltaUs(p, c) > ToleranceUs)

\* C5 amended: two present timestamps are equal when they are at most
\* 0.863 s apart and changed when they are at least 0.865 s apart, whichever
\* is the later; in between the result depends on the rounding.
C5_Amended ==
    \A step \in Steps :
        (step.previous # NULL /\ NoRecordsYet(step)) =>
            \A a \in TimeAttributes :
                LET p == step.previous[a]
                    c == step.flight[a]
                IN  (~TimeMissing(p) /\ ~TimeMissing(c)) =>
                        /\ DeltaUs(p, c) <= NearUs => ~HasEvent(step, a)
                        /\ DeltaUs(p, c) >= FarUs => HasEvent(step, a)

\* A scheduled time that moved to an earlier instant was reported.
C5_Witness ==
    \E step \in Steps :
        /\ step.previous # NULL
        /\ ~TimeMissing(step.previous.scheduled_departure_utc)
        /\ ~TimeMissing(step.flight.scheduled_departure_utc)
        /\ step.flight.scheduled_departure_utc.us + FarUs
              <= step.previous.scheduled_departure_utc.us
        /\ HasEvent(step, "scheduled_departure_utc")

-----------------------------------------------------------------------------
(* C6 *)

\* C6: a null, empty or blank gate is one missing value: with no gate
\* record of the flight in the log, no gate event is emitted when both
\* gates are missing, and one is emitted when exactly one is missing or
\* when both are present and differ as strings.
C6_GateNormalisation ==
    \A step \in Steps :
        (step.previous # NULL /\ NoRecordsYet(step)) =>
            LET p == step.previous.departure_gate
                c == step.flight.departure_gate
            IN  /\ (GateMissing(p) /\ GateMissing(c)) => ~HasEvent(step, "departure_gate")
                /\ (GateMissing(p) # GateMissing(c)) => HasEvent(step, "departure_gate")
                /\ (~GateMissing(p) /\ ~GateMissing(c) /\ p.s # c.s)
                      => HasEvent(step, "departure_gate")
                /\ (~GateMissing(p) /\ ~GateMissing(c) /\ p.s = c.s)
                      => ~HasEvent(step, "departure_gate")

\* A blank gate followed by a null gate gave no event.
C6_Witness ==
    \E step \in Steps :
        /\ step.previous # NULL
        /\ NoRecordsYet(step)
        /\ step.previous.departure_gate = Text(<<" ", " ">>)
        /\ step.flight.departure_gate = NULL
        /\ step.changes = <<>>

-----------------------------------------------------------------------------
(* C7 *)

-----------------------------------------------------------------------------
(* C8 *)

RECURSIVE WithIdentity(_)
WithIdentity(flights) ==
    IF flights = <<>> THEN <<>>
    ELSE IF HasIdentity(Head(flights))
         THEN <<Head(flights)>> \o WithIdentity(Tail(flights))
         ELSE WithIdentity(Tail(flights))

-----------------------------------------------------------------------------
(* C9 *)

\* C9: the committed rows of both tables only grow: every step keeps the
\* rows committed before it, in place and unchanged, and the connection
\* keeps seeing them.
C9_AppendOnly ==
    [][/\ IsPrefix(committed_snapshots, committed_snapshots')
       /\ IsPrefix(committed_changes, committed_changes')
       /\ IsPrefix(committed_snapshots, flight_snapshots')
       /\ IsPrefix(committed_changes, flight_changes')]_vars

\* Rows of both tables were committed and rows were written after them.
C9_Witness ==
    /\ committed_snapshots # <<>>
    /\ committed_changes # <<>>
    /\ Len(flight_snapshots) > Len(committed_snapshots)
    /\ Len(flight_changes) > Len(committed_changes)

-----------------------------------------------------------------------------
(* C10 *)

\* C10 as stated: on status 200 with a valid body of N >= 1 departures,
\* fetch_flight_data returns N records and the cycle writes N snapshots.
C10_CyclePersistsDepartures ==
    (/\ last.op = "run_monitor_cycle"
     /\ ~last.response.raises
     /\ last.response.status = HTTP_OK
     /\ last.response.valid
     /\ Len(last.response.departures) >= 1)
        => /\ Len(last.flights) = Len(last.response.departures)
           /\ Len(flight_snapshots) = Len(last.snaps) + Len(last.response.departures)

-----------------------------------------------------------------------------
(* C11 *)

IsCycle == last.op = "run_monitor_cycle"

\* The records the last operation added to the change log.
AddedChanges == Len(flight_changes) - Len(last.log)

\* The change INSERTs of the last call that raised.
FailedChangeInserts ==
    IF IsProcess /\ "errors" \in DOMAIN last
    THEN Cardinality({e \in last.errors :
            /\ e[2] # "snapshot"
            /\ \E k \in 1..Len(last.steps) :
                  /\ last.steps[k].index = e[1]
                  /\ HasEvent(last.steps[k], e[2])})
    ELSE 0

-----------------------------------------------------------------------------
(* C12 *)

FetchFails(resp) == resp.raises \/ resp.status # HTTP_OK \/ ~resp.valid

\* C12: a cycle whose fetch fails (exception, status other than 200, body
\* that fails validation) or returns no departures gets no flight data,
\* returns 0 and leaves the snapshot store and the change log, seen and
\* committed, as they were.
C12_FailedFetchLeavesStore ==
    [][(/\ last'.op = "run_monitor_cycle"
        /\ now' # now
        /\ FetchFails(last'.response) \/ last'.response.departures = <<>>)
          => /\ last'.flights = <<>>
             /\ last'.ret = 0
             /\ UNCHANGED <<flight_snapshots, flight_changes,
                            committed_snapshots, committed_changes>>]_vars

\* A cycle whose fetch answered 500 with departures in the body ran on a
\* store that holds uncommitted rows, and changed nothing.
C12_Witness ==
    /\ IsCycle
    /\ last.response.status # HTTP_OK
    /\ last.response.departures # <<>>
    /\ last.snaps # <<>>
    /\ last.log # <<>>
    /\ flight_snapshots = last.snaps
    /\ committed_snapshots = <<>>

-----------------------------------------------------------------------------
(* C13 *)

CyclesStarted ==
    IF monitor.pc = "cycle" THEN Len(monitor.outcomes) + 1 ELSE Len(monitor.outcomes)

\* C13: run_monitor started on a database that opens starts at most
\* max_cycles cycles, sleeps max(0, interval_seconds - elapsed) after every
\* cycle but the last one and before the next cycle starts, closes the
\* connection exactly once on every exit path, and terminates.
C13_BoundedRunClosesOnce ==
    /\ [](CyclesStarted <= monitor.max_cycles)
    /\ [](\A k \in 1..Len(monitor.sleeps) :
            /\ monitor.sleeps[k].after = k
            /\ k < monitor.max_cycles
            /\ monitor.sleeps[k].seconds >= 0
            /\ monitor.sleeps[k].seconds >= monitor.interval_seconds - monitor.sleeps[k].elapsed
            /\ \/ monitor.sleeps[k].seconds = 0
               \/ monitor.sleeps[k].seconds
                     = monitor.interval_seconds - monitor.sleeps[k].elapsed)
    /\ [](monitor.pc = "cycle" => Len(monitor.sleeps) = monitor.cycle_num - 1)
    /\ [](monitor.closes <= 1)
    /\ []((monitor.pc = "done" /\ monitor.exit # "no_database")
            => (monitor.closes = 1 /\ monitor.conn = "closed"))
    /\ []((monitor.pc = "done" /\ monitor.exit = "completed")
            => Len(monitor.outcomes) = monitor.max_cycles)
    /\ <>(monitor.pc = "done")

\* A run of two cycles, the first longer than the interval, ended after
\* the second cycle with one sleep of zero seconds and the connection closed.
C13_Witness ==
    /\ monitor.pc = "done"
    /\ monitor.exit = "completed"
    /\ monitor.max_cycles = 2
    /\ Len(monitor.outcomes) = 2
    /\ monitor.interval_seconds = 2
    /\ monitor.sleeps = <<[after |-> 1, elapsed |-> 3, seconds |-> 0]>>
    /\ monitor.closes = 1

-----------------------------------------------------------------------------
(* C14 *)

\* C14: a cycle k < max_cycles that returns or raises an Exception is
\* followed by the sleep and, unless the sleep is interrupted, by cycle
\* k + 1; an Exception never ends the loop.
C14_ExceptionKeepsLoop ==
    [][/\ (/\ monitor.pc = "cycle"
           /\ monitor.cycle_num < monitor.max_cycles
           /\ monitor' # monitor
           /\ monitor'.outcomes[Len(monitor'.outcomes)] \in {"ok", "error"})
             => (monitor'.pc = "sleep" /\ monitor'.cycle_num = monitor.cycle_num)
       /\ (/\ monitor.pc = "sleep"
           /\ monitor' # monitor
           /\ monitor'.exit # "interrupt_sleep")
             => (monitor'.pc = "cycle" /\ monitor'.cycle_num = monitor.cycle_num + 1)
       /\ (/\ monitor.pc = "cycle"
           /\ monitor' # monitor
           /\ monitor'.outcomes[Len(monitor'.outcomes)] = "error")
             => monitor'.exit = "none" \/ monitor'.exit = "completed"]_vars

\* The first cycle raised and the second cycle was started.
C14_Witness ==
    /\ monitor.pc = "cycle"
    /\ monitor.cycle_num = 2
    /\ monitor.outcomes = <<"error">>

-----------------------------------------------------------------------------
(* C15 *)

\* C15 as stated: no change_id appears in more than one row of the result
\* of extract_airline_changes, whatever the tables hold.
C15_EachChangeOnce ==
    last.op = "extract_airline_changes" =>
        \A r1, r2 \in last.df : r1.change_id = r2.change_id => r1 = r2

-----------------------------------------------------------------------------
(* C16 *)

IsRanking == last.op = "run_ranking_analysis" /\ ~last.empty

\* The change records of an airline among the given attributes.
CountOf(row, attributes) ==
    Cardinality({r \in last.df : /\ r.airline_iata = row.airline_iata
                                 /\ r.airline_name = row.airline_name
                                 /\ r.attribute_changed \in attributes})

\* A dense descending rank of a count over the rows of a frame.
DenseDescending(df, count_column, rank_column) ==
    /\ \A r \in df :
          (\A q \in df : q[count_column] <= r[count_column]) => r[rank_column] = 1
    /\ \A r, q \in df :
          /\ r[count_column] = q[count_column] => r[rank_column] = q[rank_column]
          /\ r[count_column] > q[count_column] => r[rank_column] < q[rank_column]
    /\ \E k \in 0..Cardinality(df) : {r[rank_column] : r \in df} = 1..k

\* C16: in the time ranking, the gate ranking and the overall ranking the
\* rank is a dense descending rank of the count (greatest count rank 1,
\* equal counts equal rank, greater count smaller rank, ranks 1..k), the
\* counts are the numbers of change records of the airline, and
\* total_changes is time_changes + gate_changes with a missing count as 0.
C16_DenseRanks ==
    IsRanking =>
        /\ DenseDescending(last.time_ranking, "time_changes", "time_change_rank")
        /\ DenseDescending(last.gate_ranking, "gate_changes", "gate_change_rank")
        /\ DenseDescending(last.overall_ranking, "total_changes", "overall_rank")
        /\ \A r \in last.time_ranking : r.time_changes = CountOf(r, TimeAttributes)
        /\ \A r \in last.gate_ranking : r.gate_changes = CountOf(r, {"departure_gate"})
        /\ \A r \in last.overall_ranking :
              /\ r.time_changes = CountOf(r, TimeAttributes)
              /\ r.gate_changes = CountOf(r, {"departure_gate"})
              /\ r.total_changes = CountOf(r, TrackedAttributes)
              /\ r.total_changes = r.time_changes + r.gate_changes

\* Two airlines share the greatest number of time changes and a third has
\* fewer; an airline without gate changes ranks below one that has some.
C16_Witness ==
    /\ IsRanking
    /\ \E r, q, p \in last.time_ranking :
          /\ r # q
          /\ r.time_change_rank = 1
          /\ q.time_change_rank = 1
          /\ p.time_change_rank = 2
    /\ \E r, q \in last.overall_ranking :
          /\ r.gate_changes = 0
          /\ r.total_changes = 2
          /\ q.gate_changes = 1
          /\ q.overall_rank < r.overall_rank

-----------------------------------------------------------------------------
(* C17 *)

\* The lines of a section come in order of decreasing count.
DecreasingCounts(section) ==
    \A i \in 1..(Len(section) - 1) : section[i].changes >= section[i + 1].changes

\* C17 as stated: the section of time changes lists the airlines with the
\* greatest numbers of time changes in order of decreasing count, and the
\* section of gate changes those with the greatest numbers of gate changes;
\* an airline with changes of one kind only does not come before an
\* airline with a greater count in the other section.
C17_TopSections ==
    IsRanking =>
        /\ DecreasingCounts(last.report.time)
        /\ DecreasingCounts(last.report.gate)

-----------------------------------------------------------------------------
(* C18 *)

\* The delays, in microseconds, of the estimated_departure_utc records of a
\* flight that reach the minimum.
DelaysOf(f, min_delay_minutes) ==
    {flight_changes[c].new_value.us - flight_changes[c].previous_value.us :
        c \in {x \in 1..Len(flight_changes) :
                  /\ flight_changes[x].unique_flight_id = f
                  /\ flight_changes[x].attribute_changed = "estimated_departure_utc"
                  /\ flight_changes[x].new_value.us - flight_changes[x].previous_value.us
                        >= min_delay_minutes * UsPerMinute}}

\* C18: extract_delay_data returns one row for each flight that has an
\* estimated_departure_utc record with a delay of at least
\* min_delay_minutes and no row for another flight; the row carries the
\* greatest delay of the flight, whatever the number of its snapshots and
\* whatever other records it has.
C18_OneRowPerDelayedFlight ==
    last.op = "extract_delay_data" =>
        \A f \in {F1, F2} :
            LET rows == {r \in last.result : r.unique_flight_id = f}
                delays == DelaysOf(f, last.min_delay_minutes)
            IN  IF delays = {} THEN rows = {}
                ELSE /\ Cardinality(rows) = 1
                     /\ \A r \in rows : /\ r.delay_us \in delays
                                        /\ \A d \in delays : d <= r.delay_us

\* A flight with two snapshots, a delay of exactly the minimum of 5 minutes
\* and an advance: one row, with the delay of 5 minutes.
C18_Witness ==
    /\ last.op = "extract_delay_data"
    /\ last.min_delay_minutes = 5
    /\ Len(flight_snapshots) = 2
    /\ flight_snapshots[1].unique_flight_id = flight_snapshots[2].unique_flight_id
    /\ Len(flight_changes) = 2
    /\ \A c \in 1..2 : flight_changes[c].attribute_changed = "estimated_departure_utc"
    /\ \E c \in 1..2 : flight_changes[c].new_value.us < flight_changes[c].previous_value.us
    /\ \E r \in last.result : r.delay_us = 5 * UsPerMinute
    /\ Cardinality(last.result) = 1

-----------------------------------------------------------------------------
(* C19 *)

\* get_latest_snapshot was called for the identity of the dictionary that
\* the call of insert_snapshot right before it stored.
ReadAfterInsert ==
    /\ last.op = "get_latest_snapshot"
    /\ last.after.op = "insert_snapshot"
    /\ last.after.ret # NULL
    /\ last.unique_flight_id = last.after.snapshot_data.unique_flight_id

\* The other rows of the identity of the dictionary stored last.
OtherRows ==
    {flight_snapshots[i] : i \in {j \in 1..Len(flight_snapshots) :
        /\ flight_snapshots[j].snapshot_id # last.after.ret.n
        /\ flight_snapshots[j].unique_flight_id = last.unique_flight_id}}

\* The text insert_snapshot stores for a timestamp.
StoredText(w) == IF w.t = "datetime" THEN IsoText(w.us, "T") ELSE w

TextBefore(a, b) ==
    \/ a.sep = " " /\ b.sep = "T"
    \/ a.sep = b.sep /\ a.us < b.us

\* C19 as stated: for a dictionary d that has is_operator, provided no
\* other snapshot of the identity has a later workspace_timestamp, the row
\* read back has the identity, is_operator 1 if d.is_operator is true and
\* 0 otherwise, and a string as workspace_timestamp.
C19_AsStated ==
    LET d == last.after.snapshot_data
    IN  (/\ ReadAfterInsert
         /\ "is_operator" \in DOMAIN d
         /\ \A r \in OtherRows : r.workspace_timestamp.us <= d.workspace_timestamp.us)
          => /\ last.result # NULL
             /\ last.result.unique_flight_id = d.unique_flight_id
             /\ last.result.is_operator =
                   IF d.is_operator = Bool(TRUE) THEN Integer(1) ELSE Integer(0)
             /\ last.result.workspace_timestamp.t = "iso"

\* C19 amended: provided every other snapshot of the identity has a
\* workspace_timestamp that comes strictly before the stored one in text
\* order, the row read back has the identity, is_operator 1 if
\* d.is_operator is true, 0 if it is present and false and NULL if d has
\* no is_operator, and a string as workspace_timestamp.
C19_Amended ==
    LET d == last.after.snapshot_data
    IN  (/\ ReadAfterInsert
         /\ \A r \in OtherRows :
               TextBefore(r.workspace_timestamp, StoredText(d.workspace_timestamp)))
          => /\ last.result # NULL
             /\ last.result.unique_flight_id = d.unique_flight_id
             /\ last.result.is_operator =
                   IF "is_operator" \notin DOMAIN d THEN NULL
                   ELSE IF d.is_operator = Bool(TRUE) THEN Integer(1) ELSE Integer(0)
             /\ last.result.workspace_timestamp.t = "iso"
             /\ last.result.snapshot_id = last.after.ret.n

\* A dictionary with a datetime and is_operator True was stored after an
\* earlier snapshot of the same identity with is_operator 0, and read back.
C19_Witness ==
    /\ ReadAfterInsert
    /\ last.after.snapshot_data.workspace_timestamp = DateTime(1000)
    /\ "is_operator" \in DOMAIN last.after.snapshot_data
    /\ last.after.snapshot_data.is_operator = Bool(TRUE)
    /\ \E r \in OtherRows :
          /\ r.is_operator = Integer(0)
          /\ TextBefore(r.workspace_timestamp, IsoText(1000, "T"))
    /\ last.result.is_operator = Integer(1)

-----------------------------------------------------------------------------
(* C20 *)

Missing(v) == v = NULL \/ v = Text(<<>>)

\* The four parts of the identity of a departure, a missing part as NULL;
\* the date is the calendar day of the scheduled time.
PartsOf(d) ==
    LET iata == IF d.airline = NULL THEN NULL ELSE d.airline.iata
        dest == IF d.movement = NULL \/ d.movement.airport = NULL THEN NULL
                ELSE d.movement.airport.iata
        sched == IF d.movement = NULL \/ d.movement.scheduledTime = NULL THEN NULL
                 ELSE d.movement.scheduledTime.utc
    IN  [airline |-> IF Missing(iata) THEN NULL ELSE iata,
         number |-> IF Missing(d.number) THEN NULL ELSE d.number,
         date |-> IF sched = NULL THEN NULL ELSE Integer(sched.day),
         destination |-> IF Missing(dest) THEN NULL ELSE dest]

\* The result of splitting a text at "-".
RECURSIVE SplitDash(_)
SplitDash(s) ==
    IF \A i \in 1..Len(s) : s[i] # "-" THEN <<s>>
    ELSE LET k == CHOOSE i \in 1..Len(s) : s[i] = "-" /\ \A j \in 1..(i - 1) : s[j] # "-"
         IN  <<SubSeq(s, 1, k - 1)>> \o SplitDash(SubSeq(s, k + 1, Len(s)))

\* C20: the identity save_data builds is never empty, has four parts, each
\* the value of the departure or its placeholder (UNK, 000, NODATE, UNK),
\* and two departures with the same four parts, of one poll or of two
\* successive polls, get the same identity, whatever their other fields.
C20_IdentityFromFourParts ==
    /\ [](last.op = "save_data" =>
            \A i \in 1..Len(last.records) :
                LET id == last.records[i].unique_flight_id
                    parts == PartsOf(last.departures[i])
                    fields == SplitDash(id.s)
                IN  /\ id.t = "text"
                    /\ id.s # <<>>
                    /\ Len(fields) = 4
                    /\ \A k \in 1..4 : fields[k] # <<>>
                    /\ fields[1] = IF parts.airline = NULL THEN <<"U", "N", "K">>
                                   ELSE parts.airline.s
                    /\ fields[2] = IF parts.number = NULL THEN <<"0", "0", "0">>
                                   ELSE parts.number.s
                    /\ (parts.date = NULL) <=> (fields[3] = <<"N", "O", "D", "A", "T", "E">>)
                    /\ fields[4] = IF parts.destination = NULL THEN <<"U", "N", "K">>
                                   ELSE parts.destination.s)
    /\ [][(last.op = "save_data" /\ last'.op = "save_data") =>
            \A i \in 1..Len(last.records), j \in 1..Len(last'.records) :
                (PartsOf(last.departures[i]) = PartsOf(last'.departures[j]))
                   => (last.records[i].unique_flight_id
                          = last'.records[j].unique_flight_id)]_vars

\* A departure without airline and without destination, scheduled on the
\* second day, got an identity made of two placeholders and two values.
C20_Witness ==
    /\ last.op = "save_data"
    /\ Len(last.records) = 1
    /\ last.departures[1].airline = NULL
    /\ last.departures[1].movement # NULL
    /\ last.departures[1].movement.airport = NULL
    /\ last.departures[1].movement.gate # NULL
    /\ last.records[1].unique_flight_id =
          Text(<<"U", "N", "K", "-", "1", "2", "-",
                 "2", "0", "2", "5", "0", "4", "2", "0", "-", "U", "N", "K">>)

-----------------------------------------------------------------------------
(* C21 *)

\* The change records a step of process_flight_data wrote, as positions of
\* the change log, and the snapshot row it wrote.
RecordsOf(step) == (Len(step.log) + 1)..(Len(step.log) + Len(step.changes))

SnapshotOf(step) == flight_snapshots[Len(step.snaps) + 1]

\* text is str() of a stored value: 'None' for NULL, the same instant for a
\* timestamp, the text itself otherwise.
RenderingOf(text, stored) ==
    CASE stored = NULL -> text = Text(<<"N", "o", "n", "e">>)
      [] stored.t = "iso" -> text.t = "iso" /\ text.us = stored.us
      [] OTHER -> text = stored

\* Where a change record comes from: its flight, attribute and the two cycle
\* timestamps.
C21_Provenance(step, rec) ==
    /\ rec.unique_flight_id = step.flight.unique_flight_id
    /\ rec.attribute_changed \in TrackedAttributes
    /\ rec.change_detected_cycle_timestamp = last.cycle_timestamp
    /\ step.previous # NULL
    /\ rec.previous_cycle_timestamp = step.previous.cycle_timestamp

\* Every change record has a snapshot of its flight taken in the cycle it
\* names as previous, which is not later than the cycle that detected it.
C21_PriorSnapshotExists ==
    \A i \in 1..Len(flight_changes) :
        LET rec == flight_changes[i]
        IN  /\ rec.previous_cycle_timestamp <= rec.change_detected_cycle_timestamp
            /\ \E j \in 1..Len(flight_snapshots) :
                  /\ flight_snapshots[j].unique_flight_id = rec.unique_flight_id
                  /\ flight_snapshots[j].cycle_timestamp = rec.previous_cycle_timestamp

\* C21 as stated: every change record written by process_flight_data has a
\* tracked attribute, the timestamp of the detecting cycle, the cycle
\* timestamp and the attribute value of the prior snapshot it was compared
\* against, and the attribute value of the new snapshot; a snapshot of the
\* same flight with the previous cycle timestamp exists, and that timestamp
\* is not later than the detecting one.
C21_AsStated ==
    /\ C21_PriorSnapshotExists
    /\ \A step \in Steps : \A i \in RecordsOf(step) :
          LET rec == flight_changes[i]
          IN  /\ C21_Provenance(step, rec)
              /\ rec.previous_value = step.previous[rec.attribute_changed]
              /\ rec.new_value = SnapshotOf(step)[rec.attribute_changed]

\* C21 amended: as C21, with previous_value and new_value the str() text of
\* the value of the prior snapshot and of the new record: 'None' for a
\* missing gate, and for a timestamp a text of the same instant (new_value
\* is written with a blank where the snapshot row has a 'T').
C21_Amended ==
    /\ C21_PriorSnapshotExists
    /\ \A step \in Steps : \A i \in RecordsOf(step) :
          LET rec == flight_changes[i]
          IN  /\ C21_Provenance(step, rec)
              /\ RenderingOf(rec.previous_value, step.previous[rec.attribute_changed])
              /\ RenderingOf(rec.new_value, SnapshotOf(step)[rec.attribute_changed])
              /\ rec.attribute_changed \in TimeAttributes
                 => /\ rec.previous_value = step.previous[rec.attribute_changed]
                    /\ rec.new_value.sep = " "
                    /\ SnapshotOf(step)[rec.attribute_changed].sep = "T"

\* A call wrote a record of a gate that went missing, against a snapshot of
\* an earlier cycle.
C21_Witness ==
    \E step \in Steps : \E i \in RecordsOf(step) :
        /\ flight_changes[i].attribute_changed = "departure_gate"
        /\ flight_changes[i].new_value = Text(<<"N", "o", "n", "e">>)
        /\ SnapshotOf(step).departure_gate = NULL
        /\ flight_changes[i].previous_cycle_timestamp < last.cycle_timestamp

-----------------------------------------------------------------------------
(* C22 *)

\* The rows of a snapshot table written with cycle timestamp ts, and the
\* change records detected in that cycle.
RowsOfCycle(snaps, ts) == {i \in 1..Len(snaps) : snaps[i].cycle_timestamp = ts}

RecordsOfCycle(chgs, ts) ==
    {i \in 1..Len(chgs) : chgs[i].change_detected_cycle_timestamp = ts}

\* The step is a call of run_monitor_cycle that ended in the given way.
CycleEnds(entry, end) == entry.op = "run_monitor_cycle" /\ entry.end = end

\* C22: the committed store changes only when a cycle ends with its commit,
\* and then it receives the snapshots and the change records of the cycle
\* together; when the commit fails the cycle returns 0, the connection is
\* back at the committed store, which is as before the cycle, and no
\* snapshot and no change record of the cycle is in either.
C22_CommitOrRollback ==
    [][/\ committed_snapshots' # committed_snapshots
          \/ committed_changes' # committed_changes
          => CycleEnds(last', "committed")
       /\ CycleEnds(last', "committed")
          => /\ committed_snapshots' = flight_snapshots'
             /\ committed_changes' = flight_changes'
             /\ Cardinality(RowsOfCycle(committed_snapshots', last'.cycle_timestamp))
                    = Len(last'.steps)
             /\ Cardinality(RecordsOfCycle(committed_changes', last'.cycle_timestamp))
                    = last'.ret
       /\ CycleEnds(last', "rolled_back")
          => /\ last'.ret = 0
             /\ committed_snapshots' = committed_snapshots
             /\ committed_changes' = committed_changes
             /\ flight_snapshots' = committed_snapshots
             /\ flight_changes' = committed_changes
             /\ RowsOfCycle(flight_snapshots', last'.cycle_timestamp) = {}
             /\ RecordsOfCycle(flight_changes', last'.cycle_timestamp) = {}
      ]_vars

\* The commit of a cycle that had written a snapshot and a change record
\* failed, with rows of an earlier cycle in the committed store.
C22_Witness ==
    /\ CycleEnds(last, "rolled_back")
    /\ \E k \in 1..Len(last.steps) : last.steps[k].changes # <<>>
    /\ committed_snapshots # <<>>
    /\ flight_snapshots = committed_snapshots

-----------------------------------------------------------------------------
(* C23 *)

\* The cycles of the run that ended with an exception.  The k-th cycle of a
\* run reads the clock at k.
AbortedCycles ==
    {k \in 1..Len(monitor.outcomes) : monitor.outcomes[k] # "ok"}

-----------------------------------------------------------------------------
(* C24 *)

\* The steps of the call that precede step k and process the same flight.
EarlierSteps(k) ==
    {j \in 1..(k - 1) :
        last.steps[j].flight.unique_flight_id = last.steps[k].flight.unique_flight_id}

LastOf(S) == CHOOSE j \in S : \A i \in S : i <= j

\* The change log the step read holds a record of the flight for attribute a
\* whose new value is the instant of the new record.
InstantRecorded(step, a) ==
    \E i \in 1..Len(step.log) :
        /\ step.log[i].unique_flight_id = step.flight.unique_flight_id
        /\ step.log[i].attribute_changed = a
        /\ step.log[i].new_value.t = "iso"
        /\ step.log[i].new_value.us = step.flight[a].us

\* C24: for each flight of a call of process_flight_data the changes are
\* detected against the store as it is before the flight's own snapshot is
\* written: every change record names a snapshot row older than the row of
\* the step; and a second occurrence of a flight in the same call is compared
\* with the row the first occurrence wrote (a changed estimate is recorded
\* with the first occurrence as previous, an equal one is not recorded) and
\* reads a change log that holds the records of the first occurrence.
C24_DetectsBeforeSnapshot ==
    IsProcess =>
    \A k \in 1..Len(last.steps) :
        LET step == last.steps[k]
            a    == "estimated_departure_utc"
        IN  /\ \A i \in RecordsOf(step) :
                  \E j \in 1..Len(step.snaps) :
                      /\ flight_snapshots[j].unique_flight_id = step.flight.unique_flight_id
                      /\ flight_snapshots[j].cycle_timestamp
                             = flight_changes[i].previous_cycle_timestamp
                      /\ RenderingOf(flight_changes[i].previous_value,
                                     flight_snapshots[j][flight_changes[i].attribute_changed])
            /\ EarlierSteps(k) # {} =>
                  LET first == last.steps[LastOf(EarlierSteps(k))]
                      recorded ==
                          \E i \in RecordsOf(step) :
                              /\ flight_changes[i].attribute_changed = a
                              /\ flight_changes[i].previous_cycle_timestamp
                                     = last.cycle_timestamp
                              /\ RenderingOf(flight_changes[i].previous_value,
                                             SnapshotOf(first)[a])
                  IN  /\ \A i \in RecordsOf(first) :
                            i <= Len(step.log) /\ step.log[i] = flight_changes[i]
                      /\ SnapshotOf(first).snapshot_id <= Len(step.snaps)
                      /\ DeltaUs(first.flight[a], step.flight[a]) >= FarUs
                         /\ ~InstantRecorded(step, a)
                         => recorded
                      /\ DeltaUs(first.flight[a], step.flight[a]) = 0 => ~recorded

\* A flight occurs twice in one call: the first occurrence wrote a change
\* record against a row of an earlier cycle, and the second one against the
\* row of the first.
C24_Witness ==
    /\ IsProcess
    /\ \E k \in 1..Len(last.steps) :
          /\ EarlierSteps(k) # {}
          /\ RecordsOf(last.steps[LastOf(EarlierSteps(k))]) # {}
          /\ \E i \in RecordsOf(last.steps[k]) :
                /\ flight_changes[i].previous_cycle_timestamp = last.cycle_timestamp
                /\ flight_changes[i].previous_value
                       = SnapshotOf(last.steps[LastOf(EarlierSteps(k))]).estimated_departure_utc

====
